---- MODULE Spec2Model ----
(***************************************************************************)
(* F1 Team Portal: the data acquisition pipeline of js/data-fetcher.js     *)
(* (fetchTeamsData, the localStorage cache, the Ergast call raced against  *)
(* a timer, the static fallback file) as a state machine.                  *)
(*                                                                         *)
(* JavaScript strings that the code computes with (team names, the stored  *)
(* timestamp) are sequences of one-character strings. A value that may be  *)
(* null/undefined is a sequence of length 0 (absent) or 1 (present).       *)
(***************************************************************************)
EXTENDS Integers, Sequences, FiniteSets

(***************************************************************************)
(* Program constants (data-fetcher.js lines 6-9).                          *)
(***************************************************************************)
CACHE_DURATION == 24 * 60 * 60 * 1000

FETCH_TIMEOUT == 5000

\* The delay every page passes to debounce for its search box (main.js line
\* 76, drivers.js and standings.js likewise).
SEARCH_DELAY == 300

(***************************************************************************)
(* Bounds of the model.                                                    *)
(***************************************************************************)
\* A network answer arrives at once, or LateMs ms after the call was made or
\* after the timeout was due.
LateMs == 1000

\* The clock is observed during MaxDays + 1 consecutive days.
MaxDays == 1

\* Page loads (invocations of fetchTeamsData) per behaviour.
MaxLoads == 2

\* Direct calls of cacheTeams / getCachedTeams / clearCache per behaviour.
MaxOps == 2

\* Teams in a list given to a function that is called on its own.
MaxTeams == 3

\* Input events on the search box per behaviour.
MaxEvents == 3

\* The search box is observed during MaxSearchMs ms.
MaxSearchMs == 1000

(***************************************************************************)
(* Characters and strings.                                                 *)
(***************************************************************************)
UpperChars == <<"A","B","C","D","E","F","G","H","I","J","K","L","M",
                "N","O","P","Q","R","S","T","U","V","W","X","Y","Z">>

LowerChars == <<"a","b","c","d","e","f","g","h","i","j","k","l","m",
                "n","o","p","q","r","s","t","u","v","w","x","y","z">>

DigitChars == <<"0","1","2","3","4","5","6","7","8","9">>

\* The characters matched by \s that occur in the model.
WhiteSpace == {" ", "\t"}

IsDigit(c) == \E d \in 1..10 : DigitChars[d] = c

DigitVal(c) == (CHOOSE d \in 1..10 : DigitChars[d] = c) - 1

\* String.prototype.toLowerCase, one character.
LowerChar(c) ==
    IF \E k \in 1..26 : UpperChars[k] = c
    THEN LowerChars[CHOOSE k \in 1..26 : UpperChars[k] = c]
    ELSE c

\* String.prototype.toLowerCase
ToLowerCase(s) == [k \in 1..Len(s) |-> LowerChar(s[k])]

RECURSIVE TrimStart(_)
TrimStart(s) ==
    IF s # <<>> /\ Head(s) \in WhiteSpace THEN TrimStart(Tail(s)) ELSE s

RECURSIVE TrimEnd(_)
TrimEnd(s) ==
    IF s # <<>> /\ s[Len(s)] \in WhiteSpace
    THEN TrimEnd(SubSeq(s, 1, Len(s) - 1))
    ELSE s

\* String.prototype.trim
Trim(s) == TrimEnd(TrimStart(s))

\* s.replace(/\s+/g, '-'): every maximal run of whitespace becomes one hyphen.
RECURSIVE ReplaceWhitespaceRuns(_)
ReplaceWhitespaceRuns(s) ==
    IF s = <<>> THEN <<>>
    ELSE IF Head(s) \in WhiteSpace
         THEN <<"-">> \o ReplaceWhitespaceRuns(TrimStart(s))
         ELSE <<Head(s)>> \o ReplaceWhitespaceRuns(Tail(s))

\* Number.prototype.toString for a non-negative integer.
RECURSIVE NumberToString(_)
NumberToString(n) ==
    IF n < 10 THEN <<DigitChars[n + 1]>>
    ELSE Append(NumberToString(n \div 10), DigitChars[(n % 10) + 1])

RECURSIVE ParseDigits(_, _)
ParseDigits(s, acc) ==
    IF s = <<>> \/ ~IsDigit(Head(s)) THEN acc
    ELSE ParseDigits(Tail(s), acc * 10 + DigitVal(Head(s)))

\* The value NaN.
NaN == [nan |-> TRUE, n |-> 0]

Num(n) == [nan |-> FALSE, n |-> n]

\* parseInt(s): leading whitespace is skipped, an optional sign is read, then
\* the longest run of digits; NaN when there is no digit. parseInt(undefined)
\* (s absent) is NaN too.
ParseInt(s) ==
    LET t == TrimStart(s)
        neg == t # <<>> /\ Head(t) = "-"
        u == IF t # <<>> /\ Head(t) \in {"-", "+"} THEN Tail(t) ELSE t
    IN  IF u = <<>> \/ ~IsDigit(Head(u)) THEN NaN
        ELSE Num(IF neg THEN 0 - ParseDigits(u, 0) ELSE ParseDigits(u, 0))

\* a - b on numbers: NaN when either is NaN.
Minus(a, b) == IF a.nan \/ b.nan THEN NaN ELSE Num(a.n - b.n)

\* a > b: false when either is NaN.
Greater(a, b) == ~a.nan /\ ~b.nan /\ a.n > b.n

\* a < b: false when either is NaN.
Less(a, b) == ~a.nan /\ ~b.nan /\ a.n < b.n

(***************************************************************************)
(* JavaScript values of the team records.                                  *)
(***************************************************************************)
\* A string value.
Str(v) == [t |-> "str", v |-> v]

\* Object.prototype.constructor: what team.constructor yields on an object
\* parsed from JSON that has no own "constructor" key.
ObjectFunction == [t |-> "fn", v |-> "Object"]

\* ToBoolean of a string or function value.
Truthy(x) == x.t = "fn" \/ x.v # ""

\* new Date(ms).getFullYear(): the model's clock stays within the first
\* year of the epoch.
GetFullYear(ms) == 1970

\* getTeamId (line 364) and the expression of lines 74 and 76.
GetTeamId(teamName) == ReplaceWhitespaceRuns(ToLowerCase(teamName))

\* The color table of getTeamAccentColor (lines 229-240): key, color.
AccentColors ==
    << << <<"m","e","r","c","e","d","e","s">>, "#00D4BE" >>,
       << <<"r","e","d"," ","b","u","l","l">>, "#0600EF" >>,
       << <<"f","e","r","r","a","r","i">>, "#FF1801" >>,
       << <<"m","c","l","a","r","e","n">>, "#FF8700" >>,
       << <<"a","l","p","i","n","e">>, "#0093D0" >>,
       << <<"a","s","t","o","n"," ","m","a","r","t","i","n">>, "#006F62" >>,
       << <<"w","i","l","l","i","a","m","s">>, "#005AFF" >>,
       << <<"a","l","f","a"," ","r","o","m","e","o">>, "#900000" >>,
       << <<"h","a","a","s">>, "#FFFFFF" >>,
       << <<"a","l","p","h","a"," ","t","a","u","r","i">>, "#2B4562" >> >>

\* colors is an object literal: colors[key] also finds what the literal
\* inherits from Object.prototype. Of the inherited names the lower-cased
\* key can be "constructor" (the function Object) and "__proto__" (the
\* object Object.prototype), both truthy. The strings in the second column
\* stand for these two values, which are not strings.
InheritedProperties ==
    << << <<"c","o","n","s","t","r","u","c","t","o","r">>, "function Object" >>,
       << <<"_","_","p","r","o","t","o","_","_">>, "Object.prototype" >> >>

\* colors[normalized] || '#FF1801' (lines 243 and 356), colors the table of
\* own properties.
LookupColor(colors, normalized) ==
    LET hits == {k \in 1..Len(colors) : colors[k][1] = normalized}
        inherited == {k \in 1..Len(InheritedProperties) :
                         InheritedProperties[k][1] = normalized}
    IN  IF hits # {} THEN colors[CHOOSE k \in hits : TRUE][2]
        ELSE IF inherited # {}
             THEN InheritedProperties[CHOOSE k \in inherited : TRUE][2]
             ELSE "#FF1801"

\* getTeamAccentColor (lines 228-244)
GetTeamAccentColor(teamName) ==
    LET normalized == Trim(ToLowerCase(teamName))
    IN  LookupColor(AccentColors, normalized)

\* The color table of the second getTeamAccentColor (lines 338-353).
AccentColorsUtils ==
    << << <<"m","e","r","c","e","d","e","s">>, "#00D4BE" >>,
       << <<"r","e","d"," ","b","u","l","l">>, "#0600EF" >>,
       << <<"r","e","d","b","u","l","l">>, "#0600EF" >>,
       << <<"f","e","r","r","a","r","i">>, "#FF1801" >>,
       << <<"m","c","l","a","r","e","n">>, "#FF8700" >>,
       << <<"a","l","p","i","n","e">>, "#0093D0" >>,
       << <<"a","s","t","o","n"," ","m","a","r","t","i","n">>, "#006F62" >>,
       << <<"a","s","t","o","n","m","a","r","t","i","n">>, "#006F62" >>,
       << <<"w","i","l","l","i","a","m","s">>, "#005AFF" >>,
       << <<"a","l","f","a"," ","r","o","m","e","o">>, "#900000" >>,
       << <<"a","l","f","a","r","o","m","e","o">>, "#900000" >>,
       << <<"h","a","a","s">>, "#FFFFFF" >>,
       << <<"a","l","p","h","a"," ","t","a","u","r","i">>, "#2B4562" >>,
       << <<"a","l","p","h","a","t","a","u","r","i">>, "#2B4562" >> >>

\* The second getTeamAccentColor (lines 337-357).
GetTeamAccentColorUtils(teamName) ==
    LET normalizedName == Trim(ToLowerCase(teamName))
    IN  LookupColor(AccentColorsUtils, normalizedName)

LogoPrefix == <<"/","i","m","a","g","e","s","/","l","o","g","o","s","/">>

LogoSuffix == <<".","s","v","g">>

\* The mapping of one upstream record to a team record (lines 73-91).
\* An upstream record has name (a string), and nationality, established,
\* url and an own "constructor" key, each present or absent.
NormalizeTeam(team, t) ==
    LET founded == ParseInt(IF team.established = <<>> THEN <<>>
                            ELSE team.established[1])
        ctor == IF team.constructor = <<>> THEN ObjectFunction
                ELSE Str(team.constructor[1])
    IN  [ id           |-> GetTeamId(team.name),
          name         |-> team.name,
          logo         |-> LogoPrefix \o GetTeamId(team.name) \o LogoSuffix,
          country      |-> team.nationality,
          founded      |-> IF founded.nan \/ founded.n = 0
                           THEN GetFullYear(t) ELSE founded.n,
          principal    |-> "Team Principal",
          powerUnit    |-> IF Truthy(ctor) THEN <<ctor>> ELSE <<Str("Mercedes")>>,
          championships |-> 0,
          wins         |-> 0,
          podiums      |-> 0,
          accent_color |-> GetTeamAccentColor(team.name),
          drivers      |-> <<>>,
          website      |-> IF team.url = <<>> \/ team.url[1] = "" THEN "#"
                           ELSE team.url[1],
          social       |-> [twitter |-> "#", instagram |-> "#"] ]

\* Teams.map(...) of lines 73-91.
NormalizeTeams(teams, t) == [k \in 1..Len(teams) |-> NormalizeTeam(teams[k], t)]

(***************************************************************************)
(* The derived views of drivers.js and standings.js.                       *)
(***************************************************************************)
\* team.drivers && Array.isArray(team.drivers) (drivers.js line 164,
\* standings.js line 126): a team record may come without the key.
HasDrivers(team) == "drivers" \in DOMAIN team

\* { ...driver, teamId: team.id, teamName: team.name, teamColor:
\* team.accent_color, teamLogo: team.logo } (drivers.js lines 166-172,
\* standings.js lines 128-134): the driver's own keys, with the four team
\* keys added or overwritten.
FlatDriver(driver, team) ==
    [ k \in DOMAIN driver \cup {"teamId", "teamName", "teamColor", "teamLogo"} |->
        IF k = "teamId" THEN team.id
        ELSE IF k = "teamName" THEN team.name
        ELSE IF k = "teamColor" THEN team.accent_color
        ELSE IF k = "teamLogo" THEN team.logo
        ELSE driver[k] ]

\* The inner forEach (drivers.js lines 165-173): the drivers of one team are
\* pushed in their order.
RECURSIVE PushDrivers(_, _, _)
PushDrivers(drivers, list, team) ==
    IF list = <<>> THEN drivers
    ELSE PushDrivers(Append(drivers, FlatDriver(Head(list), team)),
                     Tail(list), team)

\* The outer forEach (drivers.js lines 163-175), drivers the array so far.
RECURSIVE ForEachTeam(_, _)
ForEachTeam(drivers, teams) ==
    IF teams = <<>> THEN drivers
    ELSE ForEachTeam(IF HasDrivers(Head(teams))
                     THEN PushDrivers(drivers, Head(teams).drivers, Head(teams))
                     ELSE drivers,
                     Tail(teams))

\* Mutant: the team keys are copied from the first team of the list.
ExtractAllDriversOfFirstTeam(teams) ==
    [k \in 1..Len(ForEachTeam(<<>>, teams)) |->
        FlatDriver(ForEachTeam(<<>>, teams)[k], teams[1])]

\* extractAllDrivers (drivers.js lines 160-178)
ExtractAllDrivers(teams) == ForEachTeam(<<>>, teams)

\* Mutant: the comparator looks at the points only.
CompareDriversByPoints(a, b) == b.points - a.points

\* The comparator of standings.js lines 140-145.
CompareDrivers(a, b) ==
    IF b.points # a.points THEN b.points - a.points ELSE b.wins - a.wins

\* Array.prototype.sort is stable: x goes behind every element that the
\* comparator does not put after it.
RECURSIVE InsertDriver(_, _)
InsertDriver(sorted, x) ==
    IF sorted = <<>> THEN <<x>>
    ELSE IF CompareDrivers(Head(sorted), x) <= 0
         THEN <<Head(sorted)>> \o InsertDriver(Tail(sorted), x)
         ELSE <<x>> \o sorted

\* drivers.sort(...) of standings.js lines 140-145.
RECURSIVE SortDrivers(_, _)
SortDrivers(sorted, rest) ==
    IF rest = <<>> THEN sorted
    ELSE SortDrivers(InsertDriver(sorted, Head(rest)), Tail(rest))

\* extractAndSortDrivers (standings.js lines 122-148); its loop is the loop
\* of extractAllDrivers.
ExtractAndSortDrivers(teams) == SortDrivers(<<>>, ExtractAllDrivers(teams))

\* String.prototype.includes
Includes(s, sub) ==
    \E k \in 0..(Len(s) - Len(sub)) : SubSeq(s, k + 1, k + Len(sub)) = sub

\* Array.prototype.filter: the elements that pass the test, in their order.
RECURSIVE FilterDrivers(_, _, _)
FilterDrivers(drivers, query, lowerQuery) ==
    IF drivers = <<>> THEN <<>>
    ELSE LET driver == Head(drivers)
             rest == FilterDrivers(Tail(drivers), query, lowerQuery)
         IN  IF \/ Includes(ToLowerCase(driver.name), lowerQuery)
                \/ Includes(ToLowerCase(driver.teamName), lowerQuery)
                \/ Includes(NumberToString(driver.number), query)
             THEN <<driver>> \o rest
             ELSE rest

\* filterStandings (standings.js lines 223-234), drivers an array.
FilterStandings(query, drivers) ==
    IF query = <<>> THEN drivers
    ELSE FilterDrivers(drivers, query, ToLowerCase(query))

\* Mutant: the rows are numbered from 0.
RenderStandingsTableFromZero(drivers) ==
    [index \in 1..Len(drivers) |->
        [position |-> index - 1, driver |-> drivers[index]]]

\* renderStandingsTable (standings.js lines 154-199): the rows of the table,
\* each with the position it shows; no row (the note 'No drivers found.')
\* for an empty array. index + 1 of line 164 is index here, as sequences
\* start at 1.
RenderStandingsTable(drivers) ==
    [index \in 1..Len(drivers) |->
        [position |-> index, driver |-> drivers[index]]]

\* handleSearch (standings.js lines 205-215): the rows shown after an input
\* event with this value of the search box; allDriversData as
\* loadAndRenderStandings set it (line 105).
HandleSearch(value, allDriversData) ==
    LET query == Trim(value)
    IN  IF query = <<>> THEN RenderStandingsTable(allDriversData)
        ELSE RenderStandingsTable(FilterStandings(query, allDriversData))

(***************************************************************************)
(* JSON text. A text is represented by the value it denotes, or is garbage *)
(* (not parsable), or is the empty string.                                 *)
(***************************************************************************)
\* JSON.stringify of one team: a property whose value is a function or
\* undefined is left out, so it reads as absent after parsing.
StringifyTeam(team) ==
    [team EXCEPT !.powerUnit = IF @ # <<>> /\ @[1].t = "fn" THEN <<>> ELSE @]

\* JSON.stringify(teamsArray)
JsonStringify(teams) ==
    [kind |-> "json", val |-> [k \in 1..Len(teams) |-> StringifyTeam(teams[k])]]

GarbageText == [kind |-> "garbage", val |-> <<>>]

EmptyText == [kind |-> "empty", val |-> <<>>]

\* JSON.parse(text) throws a SyntaxError.
JsonParseThrows(text) == text.kind # "json"

\* JSON.parse(text), when it does not throw.
JsonParse(text) == text.val

(***************************************************************************)
(* The cache store: localStorage's two keys (lines 6-7). st.payload is the *)
(* text under CACHE_KEY, st.ts the string under CACHE_TIMESTAMP_KEY.       *)
(* denied: the browser refuses access to localStorage, every call throws.  *)
(***************************************************************************)
EmptyStore == [payload |-> <<>>, ts |-> <<>>]

\* How one call of cacheTeams can fail: not at all, or setItem throws
\* (QuotaExceededError) when writing the payload, or when writing the timestamp.
SetItemFailures == {"none", "payload", "timestamp"}

\* clearCache (lines 214-221)
ClearCache(st, denied) == IF denied THEN st ELSE EmptyStore

\* Mutant: the new list is appended to the list already stored.
CacheTeamsMerging(st, teamsArray, t, denied, fail) ==
    LET old == IF st.payload # <<>> /\ st.payload[1].kind = "json"
               THEN JsonParse(st.payload[1]) ELSE <<>>
    IN  IF denied \/ fail = "payload" THEN st
        ELSE IF fail = "timestamp"
             THEN [st EXCEPT !.payload = <<JsonStringify(old \o teamsArray)>>]
             ELSE [payload |-> <<JsonStringify(old \o teamsArray)>>,
                   ts |-> <<NumberToString(t)>>]

\* cacheTeams (lines 162-169): the store it leaves; t is Date.now().
CacheTeams(st, teamsArray, t, denied, fail) ==
    IF denied \/ fail = "payload" THEN st
    ELSE IF fail = "timestamp"
         THEN [st EXCEPT !.payload = <<JsonStringify(teamsArray)>>]
         ELSE [payload |-> <<JsonStringify(teamsArray)>>,
               ts |-> <<NumberToString(t)>>]

\* The test of line 181: Date.now() - parseInt(timestamp) > CACHE_DURATION.
Expired(timestamp, t) ==
    Greater(Minus(Num(t), ParseInt(timestamp)), Num(CACHE_DURATION))

\* Mutant: the payload is read without the test of line 178, so a payload
\* stored without a timestamp is returned.
GetCachedTeamsWithoutTimestampTest(st, t, denied) ==
    IF denied
    THEN [ret |-> <<>>, store |-> ClearCache(st, denied)]
    ELSE IF st.ts # <<>> /\ Expired(st.ts[1], t)
    THEN [ret |-> <<>>, store |-> ClearCache(st, denied)]
    ELSE IF st.payload = <<>> \/ st.payload[1].kind = "empty"
    THEN [ret |-> <<>>, store |-> st]
    ELSE IF JsonParseThrows(st.payload[1])
    THEN [ret |-> <<>>, store |-> ClearCache(st, denied)]
    ELSE [ret |-> <<JsonParse(st.payload[1])>>, store |-> st]

\* getCachedTeams (lines 175-195): what it returns (ret: absent for null)
\* and the store it leaves.
GetCachedTeams(st, t, denied) ==
    IF denied
    THEN [ret |-> <<>>, store |-> ClearCache(st, denied)]
    ELSE IF st.ts = <<>> \/ st.ts[1] = <<>>
    THEN [ret |-> <<>>, store |-> st]
    ELSE IF Expired(st.ts[1], t)
    THEN [ret |-> <<>>, store |-> ClearCache(st, denied)]
    ELSE IF st.payload = <<>> \/ st.payload[1].kind = "empty"
    THEN [ret |-> <<>>, store |-> st]
    ELSE IF JsonParseThrows(st.payload[1])
    THEN [ret |-> <<>>, store |-> ClearCache(st, denied)]
    ELSE [ret |-> <<JsonParse(st.payload[1])>>, store |-> st]

\* isCacheExpired (lines 201-209)
IsCacheExpired(st, t, denied) ==
    IF denied THEN TRUE
    ELSE IF st.ts = <<>> \/ st.ts[1] = <<>> THEN TRUE
    ELSE Expired(st.ts[1], t)

\* isCacheValid (lines 373-376): timestamp is a number; t is Date.now().
IsCacheValid(timestamp, t) ==
    /\ ~timestamp.nan /\ timestamp.n # 0
    /\ Less(Minus(Num(t), timestamp), Num(CACHE_DURATION))

(***************************************************************************)
(* The environment: what the two network resources can answer.             *)
(***************************************************************************)
RedBullUpstream ==
    [ name |-> <<"R","e","d"," ","B","u","l","l">>, nationality |-> <<"Austrian">>,
      established |-> <<>>, url |-> <<"http://redbull.example">>,
      constructor |-> <<>> ]

FerrariUpstream ==
    [ name |-> <<"F","e","r","r","a","r","i">>, nationality |-> <<>>,
      established |-> << <<"1","9","2","9">> >>, url |-> <<>>,
      constructor |-> <<>> ]

HaasUpstream ==
    [ name |-> <<"H","a","a","s"," "," ","F","1">>, nationality |-> <<"American">>,
      established |-> <<>>, url |-> <<>>, constructor |-> <<"Ferrari">> ]

\* The Teams arrays of the valid envelopes the remote API answers with.
RemoteTeamLists ==
    { <<>>, <<RedBullUpstream, FerrariUpstream>>, <<HaasUpstream>> }

\* How the remote call (fetch, then response.json()) settles: ok with an
\* envelope that has MRData.TeamTable.Teams, or a network error, a
\* non-success status, an unparsable body, an envelope without the structure.
RemoteFailures == {"neterr", "http", "badjson", "malformed"}

RemoteAnswers ==
    {[kind |-> "ok", teams |-> l] : l \in RemoteTeamLists}
    \cup {[kind |-> k, teams |-> <<>>] : k \in RemoteFailures}

\* Team records as the static file data/teams.json holds them.
MercedesTeam ==
    [ id |-> <<"m","e","r","c","e","d","e","s">>,
      name |-> <<"M","e","r","c","e","d","e","s">>,
      logo |-> LogoPrefix \o <<"m","e","r","c","e","d","e","s">> \o LogoSuffix,
      country |-> <<"Germany">>, founded |-> 1954, principal |-> "Toto Wolff",
      powerUnit |-> <<Str("Mercedes")>>, championships |-> 8, wins |-> 125,
      podiums |-> 281, accent_color |-> "#00D4BE",
      drivers |-> << [id |-> "hamilton", name |-> "Lewis Hamilton", number |-> 44,
                      nationality |-> "British", image |-> "hamilton.jpg",
                      points |-> 234, races |-> 22, wins |-> 0] >>,
      website |-> "https://mercedes.example",
      social |-> [twitter |-> "#", instagram |-> "#"] ]

McLarenTeam ==
    [ id |-> <<"m","c","l","a","r","e","n">>,
      name |-> <<"M","c","L","a","r","e","n">>,
      logo |-> LogoPrefix \o <<"m","c","l","a","r","e","n">> \o LogoSuffix,
      country |-> <<"United Kingdom">>, founded |-> 1963,
      principal |-> "Andrea Stella",
      powerUnit |-> <<Str("Mercedes")>>, championships |-> 8, wins |-> 183,
      podiums |-> 494, accent_color |-> "#FF8700",
      drivers |-> <<>>,
      website |-> "https://mclaren.example",
      social |-> [twitter |-> "#", instagram |-> "#"] ]

\* The documents the static file can hold: { teams: [...] }, with teams
\* non-empty, empty or missing.
FallbackDocs ==
    { [hasTeams |-> TRUE, teams |-> <<MercedesTeam, McLarenTeam>>],
      [hasTeams |-> TRUE, teams |-> <<>>],
      [hasTeams |-> FALSE, teams |-> <<>>] }

FallbackFailures == {"neterr", "http", "badjson"}

NoDoc == [hasTeams |-> FALSE, teams |-> <<>>]

FallbackAnswers ==
    {[kind |-> "ok", doc |-> d] : d \in FallbackDocs}
    \cup {[kind |-> k, doc |-> NoDoc] : k \in FallbackFailures}

\* The team lists direct calls of cacheTeams are made with.
TeamLists == { <<MercedesTeam>>, <<McLarenTeam>>, <<MercedesTeam, McLarenTeam>> }

\* The names getTeamAccentColor is called with: for every key of the two
\* color tables and for some names of neither table, the name in lower case,
\* in upper case and with capital initials, with and without whitespace
\* before and after it.
UpperChar(c) ==
    IF \E k \in 1..26 : LowerChars[k] = c
    THEN UpperChars[CHOOSE k \in 1..26 : LowerChars[k] = c]
    ELSE c

ToUpperCase(s) == [k \in 1..Len(s) |-> UpperChar(s[k])]

CapitalizeWords(s) ==
    [k \in 1..Len(s) |->
        IF k = 1 \/ s[k - 1] \in WhiteSpace THEN UpperChar(s[k]) ELSE s[k]]

Spellings(key) == {key, ToUpperCase(key), CapitalizeWords(key)}

Paddings == {<<>>, <<" ">>, <<"\t", " ">>}

\* The row of the first table (lines 229-240) that has this key; 0 for none.
RowOf(key) ==
    IF \E k \in 1..Len(AccentColors) : AccentColors[k][1] = key
    THEN CHOOSE k \in 1..Len(AccentColors) : AccentColors[k][1] = key
    ELSE 0

\* Names of neither table: a key with its inner space doubled or replaced,
\* longer and shorter names, the empty name, and the two names that an
\* object literal inherits.
UnlistedNames ==
    { <<"r","e","d"," "," ","b","u","l","l">>, <<"r","e","d","-","b","u","l","l">>, <<"s","a","u","b","e","r">>, <<"r","e","d"," ","b","u","l","l"," ","r","a","c","i","n","g">>, <<"m","e","r","c","e","d","e">>, <<>> }

InheritedNames == {InheritedProperties[k][1] : k \in 1..Len(InheritedProperties)}

\* An input: the name, the rows of the two tables whose key it is a variant
\* of (0 for none), and whether it is a variant of an inherited name.
TeamNameInputs ==
    UNION { { [name |-> pre \o w \o post, row |-> RowOf(AccentColorsUtils[k][1]),
               utilsRow |-> k, inherited |-> FALSE] :
                w \in Spellings(AccentColorsUtils[k][1]),
                pre \in Paddings, post \in Paddings } :
            k \in 1..Len(AccentColorsUtils) }
    \cup
    UNION { { [name |-> pre \o w \o post, row |-> 0, utilsRow |-> 0,
               inherited |-> n \in InheritedNames] :
                w \in Spellings(n), pre \in Paddings, post \in Paddings } :
            n \in UnlistedNames \cup InheritedNames }

\* The display names the remote API can give its teams: names that differ in
\* letter case only, in the width or kind of the whitespace between two
\* words only, in a hyphen for a space, and names that differ in letters.
UpstreamNames ==
    { <<"R","e","d"," ","B","u","l","l">>, <<"R","e","d"," ","b","u","l","l">>,
      <<"R","e","d"," "," ","B","u","l","l">>, <<"R","e","d","\t","B","u","l","l">>,
      <<"R","e","d","-","B","u","l","l">>, <<"F","e","r","r","a","r","i">>,
      <<"H","a","a","s">> }

\* The upstream record of a team with this name.
UpstreamNamed(name) ==
    [ name |-> name, nationality |-> <<"Austrian">>, established |-> <<>>,
      url |-> <<>>, constructor |-> <<>> ]

\* The Teams arrays normalization is applied to on its own: every list of
\* at most MaxTeams records with names of UpstreamNames.
UpstreamLists ==
    UNION { [1..n -> {UpstreamNamed(name) : name \in UpstreamNames}] :
              n \in 0..MaxTeams }

\* Drivers as the static file nests them under its teams: points and wins
\* that differ, that tie in points only, and that tie in both.
Driver(id, name, number, points, wins) ==
    [ id |-> id, name |-> name, number |-> number, nationality |-> "British",
      image |-> "/images/drivers/" \o id \o ".jpg", points |-> points,
      races |-> 22, wins |-> wins ]

Norris == Driver("norris", <<"N","o","r">>, 4, 25, 3)

Piastri == Driver("piastri", <<"P","i","a">>, 81, 25, 7)

Hamilton == Driver("hamilton", <<"H","a","m">>, 44, 18, 0)

Russell == Driver("russell", <<"R","u","s">>, 63, 25, 3)

Bearman == Driver("bearman", <<"B","e","a">>, 87, 0, 0)

\* A driver record that already has a teamId key of its own.
Tsunoda ==
    [ id |-> "tsunoda", name |-> <<"T","s","u">>, number |-> 22,
      nationality |-> "Japanese", image |-> "/images/drivers/tsunoda.jpg",
      points |-> 18, races |-> 22, wins |-> 1, teamId |-> <<"r","b">> ]

\* The teams the derived views are computed from: with two drivers, with
\* one, with none, and without the drivers key.
RosterTeams ==
    { [McLarenTeam EXCEPT !.drivers = <<Norris, Piastri>>],
      [MercedesTeam EXCEPT !.drivers = <<Hamilton, Russell>>],
      [MercedesTeam EXCEPT !.drivers = <<Russell>>],
      [McLarenTeam EXCEPT !.drivers = <<Bearman, Tsunoda>>],
      McLarenTeam,
      [ id |-> <<"h","a","a","s">>, name |-> <<"H","a","a","s">>,
        logo |-> LogoPrefix \o <<"h","a","a","s">> \o LogoSuffix,
        accent_color |-> "#FFFFFF" ] }

\* Every list of at most MaxTeams of them.
RosterLists == UNION { [1..n -> RosterTeams] : n \in 0..MaxTeams }

\* What the search box holds at an input event.
SearchValues ==
    { <<>>, <<" ">>, <<"m","c">>, <<"M","C">>, <<"r">>, <<" ","r","u","s"," ">>,
      <<"4">>, <<"2","2">>, <<"z","z">> }

\* localStorage outlives the page: what the two keys can hold when a page is
\* opened, left there by an earlier session or by another script of the
\* origin. The payload text: a list with one team, the empty list "[]", a
\* text that is not JSON, the empty string.
StoredPayloads ==
    { JsonStringify(<<McLarenTeam>>), JsonStringify(<<>>), GarbageText,
      EmptyText }

\* The timestamp string: written at the moment the clock starts, written
\* LateMs after the epoch (a day old LateMs after the clock starts), the
\* empty string.
StoredTimestamps ==
    { NumberToString(CACHE_DURATION), NumberToString(LateMs), <<>> }

StoredStores ==
    { [payload |-> p, ts |-> t] :
        p \in {<<>>} \cup {<<x>> : x \in StoredPayloads},
        t \in {<<>>} \cup {<<x>> : x \in StoredTimestamps} }

\* Timestamp strings that parseInt turns into NaN, and the stores that hold
\* one of them with a payload.
NonNumericTimestamps == { <<"a","b","c">>, <<"N","a","N">>, <<" ">> }

NonNumericStores ==
    { [payload |-> <<p>>, ts |-> <<t>>] :
        p \in {JsonStringify(<<McLarenTeam>>), GarbageText},
        t \in NonNumericTimestamps }

(***************************************************************************)
(* fetchDriverData (lines 251-280): its environment and its mapping.       *)
(***************************************************************************)
\* Rows of MRData.DriverTable.Drivers; permanentNumber is present or absent.
VerstappenUpstream ==
    [ driverId |-> <<"v","e","r","s","t","a","p","p","e","n">>, givenName |-> <<"M","a","x">>, familyName |-> <<"V","e","r","s","t","a","p","p","e","n">>,
      permanentNumber |-> <<"33">>, nationality |-> "Dutch" ]

BearmanUpstream ==
    [ driverId |-> <<"b","e","a","r","m","a","n">>, givenName |-> <<"O","l","i","v","e","r">>, familyName |-> <<"B","e","a","r","m","a","n">>,
      permanentNumber |-> <<>>, nationality |-> "British" ]

DriverLists == { <<>>, <<VerstappenUpstream, BearmanUpstream>> }

\* How fetch(url) of line 255 settles: rejected (network error), or fulfilled
\* with a response whose ok is false or true.
DriverResponses == {"neterr", "http", "ok"}

\* How response.json() of line 262 settles: rejected (unparsable body), or
\* fulfilled with an envelope without MRData.DriverTable.Drivers, or with one
\* that has it.
DriverBodies ==
    {[kind |-> "ok", drivers |-> l] : l \in DriverLists}
    \cup {[kind |-> k, drivers |-> <<>>] : k \in {"badjson", "malformed"}}

DriverImagePrefix == <<"/","i","m","a","g","e","s","/","d","r","i","v","e","r","s","/">>

DriverImageSuffix == <<".","j","p","g">>

\* The mapping of one row to a driver record (lines 265-274).
NormalizeDriver(driver) ==
    [ id          |-> driver.driverId,
      name        |-> driver.givenName \o <<" ">> \o driver.familyName,
      number      |-> IF driver.permanentNumber = <<>>
                         \/ driver.permanentNumber[1] = ""
                      THEN "0" ELSE driver.permanentNumber[1],
      nationality |-> driver.nationality,
      image       |-> DriverImagePrefix \o driver.driverId \o DriverImageSuffix,
      points      |-> 0,
      races       |-> 0,
      wins        |-> 0 ]

\* Drivers.map(...) of lines 265-274.
NormalizeDrivers(drivers) ==
    [k \in 1..Len(drivers) |-> NormalizeDriver(drivers[k])]

(***************************************************************************)
(* The promise chains.                                                     *)
(***************************************************************************)
\* Mutant: a non-success status or an envelope without the Teams structure
\* gives the empty list.
ErgastChainSwallowing(answer, t) ==
    IF answer.kind = "ok"
    THEN [ok |-> TRUE, value |-> NormalizeTeams(answer.teams, t)]
    ELSE IF answer.kind \in {"http", "malformed"}
         THEN [ok |-> TRUE, value |-> <<>>]
         ELSE [ok |-> FALSE, value |-> <<>>]

\* The chain fetch(url).then(...).then(...) of lines 62-92: fulfilled with
\* the mapped teams, or rejected.
ErgastChain(answer, t) ==
    IF answer.kind = "ok"
    THEN [ok |-> TRUE, value |-> NormalizeTeams(answer.teams, t)]
    ELSE [ok |-> FALSE, value |-> <<>>]

\* fetchFallbackJSON (lines 103-112): the parsed document, or null (absent);
\* it never rejects.
FetchFallbackJSON(answer) ==
    IF answer.kind = "ok" THEN <<answer.doc>> ELSE <<>>

\* Mutant: the cached list is never used.
CacheHitNever(cachedData) == FALSE

\* The test of line 22: if (cachedData).
CacheHit(cachedData) == cachedData # <<>>

\* Mutant: the test of line 30 without the length test.
ApiDataUsableWhenEmpty(chain) == chain.ok

\* The test of line 30: apiData && apiData.length > 0.
ApiDataUsable(chain) == chain.ok /\ Len(chain.value) > 0

\* Mutant: the fallback document is never used.
FallbackUsableNever(fallbackData) == FALSE

\* Mutant: the test of line 40 without the length test.
FallbackUsableWhenEmpty(fallbackData) ==
    fallbackData # <<>> /\ fallbackData[1].hasTeams

\* The test of line 40.
FallbackUsable(fallbackData) ==
    /\ fallbackData # <<>>
    /\ fallbackData[1].hasTeams
    /\ Len(fallbackData[1].teams) > 0

\* Mutant: cacheTeams without its try/catch.
CacheTeamsUncaught(denied, fail) == denied \/ fail # "none"

\* Whether an exception leaves cacheTeams: its try/catch (lines 163-168)
\* catches every one.
CacheTeamsThrows(denied, fail) == FALSE

(***************************************************************************)
(* State.                                                                  *)
(***************************************************************************)
VARIABLES
    now,        \* Date.now()
    store,      \* localStorage: the two cache keys
    denied,     \* localStorage access is refused
    pc,         \* per invocation: idle, awaitRemote, awaitFallback, done
    net,        \* per invocation: the remote call: none, pending, settled
    timer,      \* per invocation: the timeout: none, armed, fired
    deadline,   \* per invocation: when the armed timer is due
    fb,         \* per invocation: the fallback fetch: none, pending, settled
    ret,        \* per invocation: the promise fetchTeamsData returned
    hist,       \* per invocation: what happened during it; race is the
                \* promise fetchFromErgastAPI returned, answered is how
                \* its fetch chain settled
    loads,      \* invocations made so far
    lastOp,     \* the last direct call of a cache function
    ops,        \* direct calls made so far
    page        \* the page in the browser window and how far its load
                \* routine is

vars == <<now, store, denied, pc, net, timer, deadline, fb, ret, hist, loads,
          lastOp, ops, page>>

\* The invocations of fetchTeamsData that can be in progress on one page.
Invocations == {1, 2}

NoHist ==
    [ invokedAt |-> 0, storeAtInvoke |-> EmptyStore, readRet |-> <<>>,
      remoteCalls |-> 0, remoteOutcome |-> "none", upstream |-> <<>>,
      remoteStartedAt |-> 0, remoteEndedAt |-> 0,
      race |-> [state |-> "none", value |-> <<>>], answered |-> "none",
      fallbackCalls |-> 0, fallbackOutcome |-> "none", fallbackDoc |-> NoDoc,
      fallbackStartedAt |-> 0,
      wrote |-> <<>>, writeFail |-> "none",
      returnedAt |-> 0, storeAtReturn |-> EmptyStore ]

NoOp ==
    [ op |-> "none", arg |-> <<>>, fail |-> "none", ret |-> <<>>, at |-> 0,
      before |-> EmptyStore, prevOp |-> "none", prevArg |-> <<>>,
      prevFail |-> "none" ]

\* The closure debounce returns, before any input event: timeoutId is
\* undefined. timer, due and args are the timeout that timeoutId names;
\* events and calls record the input events dispatched and the calls of the
\* wrapped handler, each with its time and the value the event carried.
NoSearch ==
    [ timer |-> "none", due |-> 0, args |-> <<>>, events |-> <<>>,
      calls |-> <<>> ]

\* No page has been opened. number: the pages opened so far; calls: the
\* calls of fetchTeamsData the page made; view: what it shows; search: the
\* debounced listener of its search box.
NoPage ==
    [ name |-> "none", phase |-> "none", number |-> 0, calls |-> 0,
      view |-> "none", search |-> NoSearch ]

Pending == [state |-> "pending", value |-> <<>>]

Resolved(v) == [state |-> "resolved", value |-> v]

Rejected == [state |-> "rejected", value |-> <<>>]

\* The instants at which the model observes the clock: in each day the start
\* of the day, LateMs later, and those two FETCH_TIMEOUT later.
Offsets == {0, LateMs, FETCH_TIMEOUT, FETCH_TIMEOUT + LateMs}

\* Day 0 is left out: Date.now() is never 0.
Instants == {d * CACHE_DURATION + o : d \in 1..(MaxDays + 1), o \in Offsets}

\* Mutant: the timer is set to a longer delay than FETCH_TIMEOUT.
TimerDueLate(t) == t + FETCH_TIMEOUT + LateMs

\* Line 94: setTimeout(..., FETCH_TIMEOUT) called at t is due at this time.
TimerDue(t) == t + FETCH_TIMEOUT

\* Mutant: a built-in default list is returned in place of [].
NoTeamsDefault == << [id |-> <<"d","e","f","a","u","l","t">>] >>

\* Lines 47 and 50: return [].
NoTeams == <<>>

Init ==
    /\ now = CACHE_DURATION
    /\ store = EmptyStore
    /\ denied \in BOOLEAN
    /\ pc = [i \in Invocations |-> "idle"]
    /\ net = [i \in Invocations |-> "none"]
    /\ timer = [i \in Invocations |-> "none"]
    /\ deadline = [i \in Invocations |-> 0]
    /\ fb = [i \in Invocations |-> "none"]
    /\ ret = [i \in Invocations |-> [state |-> "none", value |-> <<>>]]
    /\ hist = [i \in Invocations |-> NoHist]
    /\ loads = 0
    /\ lastOp = NoOp
    /\ ops = 0
    /\ page = NoPage

\* A page is opened on a store that earlier sessions left. When access to
\* localStorage is refused its content is out of the program's reach.
StoredInit ==
    /\ now = CACHE_DURATION
    /\ denied \in BOOLEAN
    /\ store \in StoredStores
    /\ denied => store = EmptyStore
    /\ pc = [i \in Invocations |-> "idle"]
    /\ net = [i \in Invocations |-> "none"]
    /\ timer = [i \in Invocations |-> "none"]
    /\ deadline = [i \in Invocations |-> 0]
    /\ fb = [i \in Invocations |-> "none"]
    /\ ret = [i \in Invocations |-> [state |-> "none", value |-> <<>>]]
    /\ hist = [i \in Invocations |-> NoHist]
    /\ loads = 0
    /\ lastOp = NoOp
    /\ ops = 0
    /\ page = NoPage

\* A page is opened on a store whose timestamp is not a number.
NonNumericInit ==
    /\ now = CACHE_DURATION
    /\ denied = FALSE
    /\ store \in NonNumericStores
    /\ pc = [i \in Invocations |-> "idle"]
    /\ net = [i \in Invocations |-> "none"]
    /\ timer = [i \in Invocations |-> "none"]
    /\ deadline = [i \in Invocations |-> 0]
    /\ fb = [i \in Invocations |-> "none"]
    /\ ret = [i \in Invocations |-> [state |-> "none", value |-> <<>>]]
    /\ hist = [i \in Invocations |-> NoHist]
    /\ loads = 0
    /\ lastOp = NoOp
    /\ ops = 0
    /\ page = NoPage

(***************************************************************************)
(* fetchTeamsData (lines 18-52), one action per task of the event loop.    *)
(***************************************************************************)
\* The try of line 19 with its catch of lines 48-51: the promise is fulfilled
\* with the value the body returns, and with [] when the body threw.
Settled(threw, value) ==
    IF threw THEN Resolved(NoTeams) ELSE Resolved(value)

\* The return statements of lines 24, 32, 42, 47 and 50: fetchTeamsData ends
\* with outcome; st is the store at that moment.
Return(i, h, outcome, st) ==
    /\ pc' = [pc EXCEPT ![i] = "done"]
    /\ ret' = [ret EXCEPT ![i] = outcome]
    /\ store' = st
    /\ hist' = [hist EXCEPT ![i] =
                  [h EXCEPT !.returnedAt = now, !.storeAtReturn = st]]

\* Lines 31-32 and 41-42: cacheTeams(list); return list. An exception that
\* left cacheTeams would reach the catch of line 48, which returns [].
CacheAndReturn(i, h, list, fail) ==
    LET st == CacheTeams(store, list, now, denied, fail)
        h2 == [h EXCEPT !.wrote = <<list>>,
                        !.writeFail = IF denied THEN "denied" ELSE fail]
    IN  Return(i, h2, Settled(CacheTeamsThrows(denied, fail), list), st)

\* Line 39: fetchFallbackJSON() is called, its fetch starts (line 105).
StartFallback(i, h) ==
    /\ pc' = [pc EXCEPT ![i] = "awaitFallback"]
    /\ fb' = [fb EXCEPT ![i] = "pending"]
    /\ hist' = [hist EXCEPT ![i] =
                  [h EXCEPT !.fallbackCalls = @ + 1, !.fallbackStartedAt = now]]
    /\ UNCHANGED <<store, ret>>

\* Mutant: a cache hit writes the list back, which renews its timestamp.
FetchTeamsDataRefreshing(i) ==
    /\ pc[i] \in {"idle", "done"}
    /\ loads < MaxLoads
    /\ TimerDue(now) \in Instants
    /\ loads' = loads + 1
    /\ LET r == GetCachedTeams(store, now, denied)
           h == [NoHist EXCEPT !.invokedAt = now, !.storeAtInvoke = store,
                               !.readRet = r.ret]
       IN  IF CacheHit(r.ret)
           THEN /\ Return(i, [h EXCEPT !.wrote = r.ret],
                          Settled(FALSE, r.ret[1]),
                          CacheTeams(r.store, r.ret[1], now, denied, "none"))
                /\ net' = [net EXCEPT ![i] = "none"]
                /\ timer' = [timer EXCEPT ![i] = "none"]
                /\ UNCHANGED deadline
           ELSE /\ pc' = [pc EXCEPT ![i] = "awaitRemote"]
                /\ ret' = [ret EXCEPT ![i] = Pending]
                /\ store' = r.store
                /\ net' = [net EXCEPT ![i] = "pending"]
                /\ timer' = [timer EXCEPT ![i] = "armed"]
                /\ deadline' = [deadline EXCEPT ![i] = TimerDue(now)]
                /\ hist' = [hist EXCEPT ![i] =
                              [h EXCEPT !.remoteCalls = 1, !.remoteStartedAt = now,
                                        !.race = Pending]]
    /\ fb' = [fb EXCEPT ![i] = "none"]
    /\ UNCHANGED <<now, denied, lastOp, ops>>

\* fetchTeamsData() is called (lines 18-29, 58-96): the cache is read; on a
\* hit the list is returned, otherwise the remote call and the timer start.
FetchTeamsData(i) ==
    /\ pc[i] \in {"idle", "done"}
    /\ loads < MaxLoads
    /\ TimerDue(now) \in Instants
    /\ loads' = loads + 1
    /\ LET r == GetCachedTeams(store, now, denied)
           h == [NoHist EXCEPT !.invokedAt = now, !.storeAtInvoke = store,
                               !.readRet = r.ret]
       IN  IF CacheHit(r.ret)
           THEN /\ Return(i, h, Settled(FALSE, r.ret[1]), r.store)
                /\ net' = [net EXCEPT ![i] = "none"]
                /\ timer' = [timer EXCEPT ![i] = "none"]
                /\ UNCHANGED deadline
           ELSE /\ pc' = [pc EXCEPT ![i] = "awaitRemote"]
                /\ ret' = [ret EXCEPT ![i] = Pending]
                /\ store' = r.store
                /\ net' = [net EXCEPT ![i] = "pending"]
                /\ timer' = [timer EXCEPT ![i] = "armed"]
                /\ deadline' = [deadline EXCEPT ![i] = TimerDue(now)]
                /\ hist' = [hist EXCEPT ![i] =
                              [h EXCEPT !.remoteCalls = 1, !.remoteStartedAt = now,
                                        !.race = Pending]]
    /\ fb' = [fb EXCEPT ![i] = "none"]
    /\ UNCHANGED <<now, denied, lastOp, ops>>

\* A call of fetchTeamsData(), whoever makes it.
Invoke(i) == FetchTeamsData(i) /\ UNCHANGED page

\* Mutant: a usable answer that comes after the timeout is cached.
RemoteSettlesLateWins(i, answer, fail) ==
    /\ net[i] = "pending"
    /\ net' = [net EXCEPT ![i] = "settled"]
    /\ IF pc[i] = "awaitRemote"
       THEN LET chain == ErgastChain(answer, now)
                h == [hist[i] EXCEPT !.remoteOutcome = answer.kind,
                                     !.upstream = answer.teams,
                                     !.remoteEndedAt = now,
                                     !.answered = answer.kind,
                                     !.race = IF chain.ok
                                              THEN Resolved(chain.value)
                                              ELSE Rejected]
            IN  IF ApiDataUsable(chain)
                THEN CacheAndReturn(i, h, chain.value, fail) /\ UNCHANGED fb
                ELSE StartFallback(i, h)
       ELSE /\ hist' = [hist EXCEPT ![i].answered = answer.kind]
            /\ store' = IF ApiDataUsable(ErgastChain(answer, now))
                        THEN CacheTeams(store, ErgastChain(answer, now).value,
                                        now, denied, fail)
                        ELSE store
            /\ UNCHANGED <<pc, fb, ret>>
    /\ UNCHANGED <<now, denied, timer, deadline, loads, lastOp, ops, page>>

\* The remote call settles with answer (lines 62-92). While the race of line
\* 61 is undecided this decides it and fetchTeamsData goes on (lines 29-39);
\* after the timeout the result is dropped.
RemoteSettles(i, answer, fail) ==
    /\ net[i] = "pending"
    /\ net' = [net EXCEPT ![i] = "settled"]
    /\ IF pc[i] = "awaitRemote"
       THEN LET chain == ErgastChain(answer, now)
                h == [hist[i] EXCEPT !.remoteOutcome = answer.kind,
                                     !.upstream = answer.teams,
                                     !.remoteEndedAt = now,
                                     !.answered = answer.kind,
                                     !.race = IF chain.ok
                                              THEN Resolved(chain.value)
                                              ELSE Rejected]
            IN  IF ApiDataUsable(chain)
                THEN CacheAndReturn(i, h, chain.value, fail) /\ UNCHANGED fb
                ELSE StartFallback(i, h)
       ELSE /\ hist' = [hist EXCEPT ![i].answered = answer.kind]
            /\ UNCHANGED <<pc, fb, ret, store>>
    /\ UNCHANGED <<now, denied, timer, deadline, loads, lastOp, ops, page>>

\* The timer of line 94 fires: the race is rejected with 'Fetch timeout' if
\* it is undecided, and fetchTeamsData goes on to the fallback (lines 34-39).
TimerFires(i) ==
    /\ timer[i] = "armed"
    /\ now >= deadline[i]
    /\ timer' = [timer EXCEPT ![i] = "fired"]
    /\ IF pc[i] = "awaitRemote"
       THEN StartFallback(i, [hist[i] EXCEPT !.remoteOutcome = "timeout",
                                             !.remoteEndedAt = now,
                                             !.race = Rejected])
       ELSE UNCHANGED <<pc, fb, ret, store, hist>>
    /\ UNCHANGED <<now, denied, net, deadline, loads, lastOp, ops, page>>

\* The fallback fetch settles with answer (lines 105-111, 39-47).
FallbackSettles(i, answer, fail) ==
    /\ fb[i] = "pending"
    /\ pc[i] = "awaitFallback"
    /\ fb' = [fb EXCEPT ![i] = "settled"]
    /\ LET fallbackData == FetchFallbackJSON(answer)
           h == [hist[i] EXCEPT !.fallbackOutcome = answer.kind,
                                !.fallbackDoc = answer.doc]
       IN  IF FallbackUsable(fallbackData)
           THEN CacheAndReturn(i, h, fallbackData[1].teams, fail)
           ELSE Return(i, h, Settled(FALSE, NoTeams), store)
    /\ UNCHANGED <<now, denied, net, timer, deadline, loads, lastOp, ops, page>>

(***************************************************************************)
(* Time. A timer that is due fires before the clock moves on.              *)
(***************************************************************************)
Tick(t) ==
    /\ t > now
    /\ \A i \in Invocations : timer[i] = "armed" => t <= deadline[i]
    /\ now' = t
    /\ UNCHANGED <<store, denied, pc, net, timer, deadline, fb, ret, hist,
                   loads, lastOp, ops, page>>

(***************************************************************************)
(* Direct calls of the cache functions.                                    *)
(***************************************************************************)
Logged(op, arg, fail, r) ==
    [ op |-> op, arg |-> arg, fail |-> fail, ret |-> r, at |-> now,
      before |-> store, prevOp |-> lastOp.op, prevArg |-> lastOp.arg,
      prevFail |-> lastOp.fail ]

CacheTeamsOp(teamsArray, fail) ==
    /\ ops < MaxOps
    /\ ops' = ops + 1
    /\ store' = CacheTeams(store, teamsArray, now, denied, fail)
    /\ lastOp' = Logged("cacheTeams", teamsArray,
                        IF denied THEN "denied" ELSE fail, <<>>)
    /\ UNCHANGED <<now, denied, pc, net, timer, deadline, fb, ret, hist, loads,
                   page>>

GetCachedTeamsOp ==
    /\ ops < MaxOps
    /\ ops' = ops + 1
    /\ LET r == GetCachedTeams(store, now, denied)
       IN  /\ store' = r.store
           /\ lastOp' = Logged("getCachedTeams", <<>>, "none", r.ret)
    /\ UNCHANGED <<now, denied, pc, net, timer, deadline, fb, ret, hist, loads,
                   page>>

ClearCacheOp ==
    /\ ops < MaxOps
    /\ ops' = ops + 1
    /\ store' = ClearCache(store, denied)
    /\ lastOp' = Logged("clearCache", <<>>, "none", <<>>)
    /\ UNCHANGED <<now, denied, pc, net, timer, deadline, fb, ret, hist, loads,
                   page>>

(***************************************************************************)
(* The pages. Each page's script (main.js, standings.js, drivers.js) runs  *)
(* its init routine once the document is parsed; the routine calls the     *)
(* page's load routine, which awaits fetchTeamsData() and renders.         *)
(***************************************************************************)
\* The page scripts: main.js (loadAndRenderTeams), standings.js
\* (loadAndRenderStandings), drivers.js (loadAndRenderDrivers).
Pages == {"main", "standings", "drivers"}

\* document.readyState when the script runs (main.js line 318).
ReadyStates == {"loading", "interactive"}

\* initApp -> loadAndRenderTeams up to its await (main.js lines 13-23,
\* 143-146; standings.js lines 14-19, 99-102; drivers.js lines 14-24,
\* 135-138): fetchTeamsData is called.
InitPage(i, p) ==
    /\ FetchTeamsData(i)
    /\ page' = [p EXCEPT !.phase = "awaiting", !.calls = @ + 1]

\* The browser opens a page and runs its script (main.js lines 318-322):
\* while the document is loading the init routine is registered for
\* DOMContentLoaded, otherwise it is called at once.
LoadPage(i, name, readyState) ==
    /\ page.phase \in {"none", "rendered"}
    /\ pc[i] \in {"idle", "done"}
    /\ loads < MaxLoads
    /\ LET p == [NoPage EXCEPT !.name = name, !.number = page.number + 1]
       IN  IF readyState = "loading"
           THEN /\ page' = [p EXCEPT !.phase = "waitingDOM"]
                /\ UNCHANGED <<now, store, denied, pc, net, timer, deadline, fb,
                               ret, hist, loads, lastOp, ops>>
           ELSE InitPage(i, p)

\* DOMContentLoaded is dispatched: the registered init routine runs.
DomContentLoaded(i) ==
    /\ page.phase = "waitingDOM"
    /\ InitPage(i, page)

\* renderTeamsGrid (ui-renderer.js lines 16-23) reads team.name.charAt(0):
\* it throws on a team without a name. The render functions of the other
\* two pages call no method of a team's or a driver's value.
RenderThrows(name, teams) ==
    name = "main" /\ \E k \in 1..Len(teams) : "name" \notin DOMAIN teams[k]

\* What the drivers page and the standings page show for a list of drivers
\* (drivers.js lines 209-212, standings.js lines 158-161): the cards or
\* rows, or the note 'No drivers found.'.
DriversView(drivers) == IF drivers = <<>> THEN "noDrivers" ELSE "content"

\* Mutant: the test of the list without the length test.
PageViewWithoutLengthTest(name, outcome) ==
    IF outcome.state = "resolved"
    THEN IF name = "main" THEN "content"
         ELSE DriversView(ExtractAllDrivers(outcome.value))
    ELSE "error"

\* What the page shows when its load routine ends (main.js lines 148-158,
\* drivers.js lines 140-152, standings.js lines 104-114); outcome is the
\* promise of fetchTeamsData. The error message is rendered when the list
\* is empty, and by the catch when the await or the rendering threw.
PageView(name, outcome) ==
    IF outcome.state = "resolved" /\ Len(outcome.value) > 0
    THEN IF RenderThrows(name, outcome.value) THEN "error"
         ELSE IF name = "main" THEN "content"
         ELSE IF name = "drivers"
              THEN DriversView(ExtractAllDrivers(outcome.value))
              ELSE DriversView(ExtractAndSortDrivers(outcome.value))
    ELSE "error"

\* Mutant: the load routine calls fetchTeamsData again when it got no teams.
RenderPageRetrying(i) ==
    /\ page.phase = "awaiting"
    /\ pc[i] = "done"
    /\ IF ret[i].state = "resolved" /\ Len(ret[i].value) > 0
       THEN /\ page' = [page EXCEPT !.phase = "rendered", !.view = "content"]
            /\ UNCHANGED <<now, store, denied, pc, net, timer, deadline, fb,
                           ret, hist, loads, lastOp, ops>>
       ELSE InitPage(i, page)

\* The load routine goes on after its await (main.js lines 148-158,
\* standings.js lines 104-114, drivers.js lines 140-153): with a non-empty
\* list the content is rendered, otherwise the error message; fetchTeamsData
\* is not called again. view: "content" (the grid of teams, the cards of the
\* drivers, the rows of the standings), "noDrivers", "error".
RenderPage(i) ==
    /\ page.phase = "awaiting"
    /\ pc[i] = "done"
    /\ page' = [page EXCEPT !.phase = "rendered",
                            !.view = PageView(page.name, ret[i])]
    /\ UNCHANGED <<now, store, denied, pc, net, timer, deadline, fb, ret, hist,
                   loads, lastOp, ops>>

(***************************************************************************)
(* fetchDriverData (lines 251-280), one action per task of the event loop. *)
(* Its argument teamId is never read.                                      *)
(***************************************************************************)
\* Mutant: the catch of line 276 rethrows.
DriverSettledRethrowing(threw, value) ==
    IF threw THEN Rejected ELSE Resolved(value)

\* The try of line 252 with its catch of lines 276-278 and the return of
\* line 279: the promise is fulfilled with the value the body returns, and
\* with [] when the body threw.
DriverSettled(threw, value) ==
    IF threw THEN Resolved(<<>>) ELSE Resolved(value)

\* fetchDriverData ends with outcome.
DriverReturn(i, h, outcome) ==
    /\ pc' = [pc EXCEPT ![i] = "done"]
    /\ ret' = [ret EXCEPT ![i] = outcome]
    /\ hist' = [hist EXCEPT ![i] = [h EXCEPT !.returnedAt = now]]

\* fetchDriverData(teamId) is called (lines 252-259): the fetch and the
\* timer start.
InvokeDrivers(i) ==
    /\ pc[i] \in {"idle", "done"}
    /\ loads < MaxLoads
    /\ TimerDue(now) \in Instants
    /\ loads' = loads + 1
    /\ pc' = [pc EXCEPT ![i] = "awaitDrivers"]
    /\ ret' = [ret EXCEPT ![i] = Pending]
    /\ net' = [net EXCEPT ![i] = "pending"]
    /\ timer' = [timer EXCEPT ![i] = "armed"]
    /\ deadline' = [deadline EXCEPT ![i] = TimerDue(now)]
    /\ hist' = [hist EXCEPT ![i] =
                  [NoHist EXCEPT !.invokedAt = now, !.remoteCalls = 1,
                                 !.remoteStartedAt = now, !.race = Pending]]
    /\ UNCHANGED <<now, store, denied, fb, lastOp, ops, page>>

\* fetch(url) settles (line 255). While the race is undecided this decides
\* it: a rejection, or a response that is not ok (line 261), reaches the
\* catch; with an ok response the body is read (line 262). After the timeout
\* the response is dropped.
DriverFetchSettles(i, response) ==
    /\ net[i] = "pending"
    /\ IF pc[i] = "awaitDrivers"
       THEN LET h == [hist[i] EXCEPT !.answered = response,
                                     !.race = IF response = "neterr"
                                              THEN Rejected
                                              ELSE Resolved(response)]
            IN  IF response = "ok"
                THEN /\ pc' = [pc EXCEPT ![i] = "awaitBody"]
                     /\ net' = [net EXCEPT ![i] = "body"]
                     /\ hist' = [hist EXCEPT ![i] = h]
                     /\ UNCHANGED ret
                ELSE /\ net' = [net EXCEPT ![i] = "settled"]
                     /\ DriverReturn(i, [h EXCEPT !.remoteOutcome = response,
                                                  !.remoteEndedAt = now],
                                     DriverSettled(TRUE, <<>>))
       ELSE /\ net' = [net EXCEPT ![i] = "settled"]
            /\ hist' = [hist EXCEPT ![i].answered = response]
            /\ UNCHANGED <<pc, ret>>
    /\ UNCHANGED <<now, store, denied, timer, deadline, fb, loads, lastOp, ops, page>>

\* response.json() settles (lines 262-279).
DriverBodySettles(i, body) ==
    /\ net[i] = "body"
    /\ pc[i] = "awaitBody"
    /\ net' = [net EXCEPT ![i] = "settled"]
    /\ LET h == [hist[i] EXCEPT !.remoteOutcome = body.kind,
                                 !.upstream = body.drivers,
                                 !.remoteEndedAt = now]
       IN  IF body.kind = "badjson"
           THEN DriverReturn(i, h, DriverSettled(TRUE, <<>>))
           ELSE IF body.kind = "ok"
           THEN DriverReturn(i, h,
                    DriverSettled(FALSE, NormalizeDrivers(body.drivers)))
           ELSE DriverReturn(i, h, DriverSettled(FALSE, <<>>))
    /\ UNCHANGED <<now, store, denied, timer, deadline, fb, loads, lastOp, ops, page>>

\* The timer of line 257 fires: the race is rejected with 'Fetch timeout' if
\* it is undecided, which reaches the catch. The reading of the body is not
\* raced against it.
DriverTimerFires(i) ==
    /\ timer[i] = "armed"
    /\ now >= deadline[i]
    /\ timer' = [timer EXCEPT ![i] = "fired"]
    /\ IF pc[i] = "awaitDrivers"
       THEN DriverReturn(i, [hist[i] EXCEPT !.remoteOutcome = "timeout",
                                           !.remoteEndedAt = now,
                                           !.race = Rejected],
                         DriverSettled(TRUE, <<>>))
       ELSE UNCHANGED <<pc, ret, hist>>
    /\ UNCHANGED <<now, store, denied, net, deadline, fb, loads, lastOp, ops, page>>

\* A call of getTeamAccentColor(teamName), of the first and of the second
\* definition.
GetTeamAccentColorOp(input) ==
    /\ lastOp' = [NoOp EXCEPT !.op = "getTeamAccentColor", !.arg = input,
                              !.ret = [first |-> GetTeamAccentColor(input.name),
                                       second |-> GetTeamAccentColorUtils(input.name)],
                              !.at = now]
    /\ UNCHANGED <<now, store, denied, pc, net, timer, deadline, fb, ret, hist,
                   loads, ops, page>>

\* The callback of line 67 runs on an envelope whose Teams array is teams
\* (lines 73-91).
NormalizeTeamsOp(teams) ==
    /\ lastOp' = [NoOp EXCEPT !.op = "normalizeTeams", !.arg = teams,
                              !.ret = NormalizeTeams(teams, now), !.at = now]
    /\ UNCHANGED <<now, store, denied, pc, net, timer, deadline, fb, ret, hist,
                   loads, ops, page>>

\* A call of extractAllDrivers(teams); arg is the array teams as it is
\* after the call.
ExtractAllDriversOp(teams) ==
    /\ lastOp.op = "none"
    /\ lastOp' = [NoOp EXCEPT !.op = "extractAllDrivers", !.arg = teams,
                              !.ret = ExtractAllDrivers(teams), !.at = now]
    /\ UNCHANGED <<now, store, denied, pc, net, timer, deadline, fb, ret, hist,
                   loads, ops, page>>

\* A call of extractAndSortDrivers(teams).
ExtractAndSortDriversOp(teams) ==
    /\ lastOp.op = "none"
    /\ lastOp' = [NoOp EXCEPT !.op = "extractAndSortDrivers", !.arg = teams,
                              !.ret = ExtractAndSortDrivers(teams), !.at = now]
    /\ UNCHANGED <<now, store, denied, pc, net, timer, deadline, fb, ret, hist,
                   loads, ops, page>>

\* The standings page has loaded teams (standings.js line 105) and an input
\* event with this value reaches handleSearch.
HandleSearchOp(teams, value) ==
    /\ lastOp.op = "none"
    /\ lastOp' = [NoOp EXCEPT
                    !.op = "handleSearch",
                    !.arg = [teams |-> teams, value |-> value],
                    !.ret = HandleSearch(value, ExtractAndSortDrivers(teams)),
                    !.at = now]
    /\ UNCHANGED <<now, store, denied, pc, net, timer, deadline, fb, ret, hist,
                   loads, ops, page>>

(***************************************************************************)
(* Spec: page loads, one at a time, and the passing of time.               *)
(***************************************************************************)
Next ==
    \/ Invoke(1)
    \/ \E answer \in RemoteAnswers, fail \in SetItemFailures :
          RemoteSettles(1, answer, fail)
    \/ TimerFires(1)
    \/ \E answer \in FallbackAnswers, fail \in SetItemFailures :
          FallbackSettles(1, answer, fail)
    \/ \E t \in Instants : Tick(t)

Spec == Init /\ [][Next]_vars

\* The event loop runs a timer callback that is due, and time passes. The
\* network owes nothing: a fetch may stay pending for ever.
LiveSpec ==
    /\ Spec
    /\ WF_vars(TimerFires(1))
    /\ WF_vars(\E t \in Instants : Tick(t))

(***************************************************************************)
(* CacheSpec: direct calls of the cache functions, and the passing of time.*)
(***************************************************************************)
CacheNext ==
    \/ \E teamsArray \in TeamLists, fail \in SetItemFailures :
          CacheTeamsOp(teamsArray, fail)
    \/ GetCachedTeamsOp
    \/ ClearCacheOp
    \/ \E t \in Instants : Tick(t)

CacheSpec == Init /\ [][CacheNext]_vars

(***************************************************************************)
(* StoredSpec: page loads on a store that earlier sessions left.           *)
(* StoredCacheSpec: direct calls of the cache functions on such a store.   *)
(***************************************************************************)
StoredSpec == StoredInit /\ [][Next]_vars

StoredCacheSpec == StoredInit /\ [][CacheNext]_vars

(***************************************************************************)
(* PageSpec: pages are opened one after the other; fetchTeamsData is       *)
(* called by their load routines only. Storage is refused altogether or    *)
(* takes every write.                                                      *)
(***************************************************************************)
PageNext ==
    \/ \E name \in Pages, readyState \in ReadyStates :
          LoadPage(1, name, readyState)
    \/ DomContentLoaded(1)
    \/ RenderPage(1)
    \/ \E answer \in RemoteAnswers : RemoteSettles(1, answer, "none")
    \/ TimerFires(1)
    \/ \E answer \in FallbackAnswers : FallbackSettles(1, answer, "none")
    \/ \E t \in Instants : Tick(t)

PageSpec == Init /\ [][PageNext]_vars

(***************************************************************************)
(* DriverSpec: calls of fetchDriverData, one at a time, and time.          *)
(***************************************************************************)
DriverNext ==
    \/ InvokeDrivers(1)
    \/ \E response \in DriverResponses : DriverFetchSettles(1, response)
    \/ \E body \in DriverBodies : DriverBodySettles(1, body)
    \/ DriverTimerFires(1)
    \/ \E t \in Instants : Tick(t)

DriverSpec == Init /\ [][DriverNext]_vars

(***************************************************************************)
(* ColorSpec: calls of getTeamAccentColor.                                 *)
(***************************************************************************)
ColorNext == \E input \in TeamNameInputs : GetTeamAccentColorOp(input)

ColorSpec == Init /\ [][ColorNext]_vars

(***************************************************************************)
(* NormalizeSpec: the remote normalization applied to Teams arrays.        *)
(***************************************************************************)
NormalizeNext == \E teams \in UpstreamLists : NormalizeTeamsOp(teams)

NormalizeSpec == Init /\ [][NormalizeNext]_vars

(***************************************************************************)
(* RaceSpec: two components of one page call fetchTeamsData independently; *)
(* the tasks of the two invocations interleave.                            *)
(***************************************************************************)
\* What the two resources answer while two invocations race: the remote API
\* with one of two lists or with a network error, the static file with its
\* teams or with a non-success status.
RaceRemoteAnswers ==
    { [kind |-> "ok", teams |-> <<RedBullUpstream, FerrariUpstream>>],
      [kind |-> "ok", teams |-> <<HaasUpstream>>],
      [kind |-> "neterr", teams |-> <<>>] }

RaceFallbackAnswers ==
    { [kind |-> "ok",
       doc |-> [hasTeams |-> TRUE, teams |-> <<MercedesTeam, McLarenTeam>>]],
      [kind |-> "http", doc |-> NoDoc] }

\* Each of the two components calls fetchTeamsData once.
RaceNext ==
    \/ \E i \in Invocations : pc[i] = "idle" /\ Invoke(i)
    \/ \E i \in Invocations, answer \in RaceRemoteAnswers,
          fail \in SetItemFailures : RemoteSettles(i, answer, fail)
    \/ \E i \in Invocations : TimerFires(i)
    \/ \E i \in Invocations, answer \in RaceFallbackAnswers,
          fail \in SetItemFailures : FallbackSettles(i, answer, fail)
    \/ \E t \in Instants : Tick(t)

RaceSpec == Init /\ [][RaceNext]_vars

(***************************************************************************)
(* NonNumericSpec: page loads on a store whose timestamp is not a number.  *)
(***************************************************************************)
NonNumericSpec == NonNumericInit /\ [][Next]_vars

(***************************************************************************)
(* RosterSpec: the derived views computed from lists of teams, one call    *)
(* per behaviour.                                                          *)
(***************************************************************************)
RosterNext ==
    \/ \E teams \in RosterLists : ExtractAllDriversOp(teams)
    \/ \E teams \in RosterLists : ExtractAndSortDriversOp(teams)
    \/ \E teams \in RosterLists, value \in SearchValues :
          HandleSearchOp(teams, value)

RosterSpec == Init /\ [][RosterNext]_vars

(***************************************************************************)
(* DebounceSpec: input events on the search box of a rendered page.        *)
(***************************************************************************)
\* What the user has typed when an input event is dispatched.
InputValues == { <<"m">>, <<"m","c">> }

\* The clock of the search box moves in steps of these lengths.
SearchSteps == {100, 200, SEARCH_DELAY}

\* A debounce that leaves a timeout that is already set alone.
DebouncedKeepingFirst(search, value, t) ==
    [ search EXCEPT
        !.timer = "armed",
        !.due = IF search.timer = "armed" THEN @ ELSE t + SEARCH_DELAY,
        !.args = IF search.timer = "armed" THEN @ ELSE value,
        !.events = Append(@, [at |-> t, value |-> value]) ]

\* The function debounce returns (main.js lines 210-214), called at time t
\* with an event that carries value: clearTimeout(timeoutId) drops the
\* timeout that is set, setTimeout sets one that is due after the delay and
\* holds the arguments of this call.
Debounced(search, value, t) ==
    [ search EXCEPT
        !.timer = "armed",
        !.due = t + SEARCH_DELAY,
        !.args = value,
        !.events = Append(@, [at |-> t, value |-> value]) ]

\* An input event is dispatched on the search box: the listener that
\* bindEventListeners registered (main.js lines 73-77) is called. initApp
\* binds it before it loads the teams (main.js lines 19-23).
InputEvent(value) ==
    /\ page.phase \in {"awaiting", "rendered"}
    /\ Len(page.search.events) < MaxEvents
    /\ page' = [page EXCEPT !.search = Debounced(@, value, now)]
    /\ UNCHANGED <<now, store, denied, pc, net, timer, deadline, fb, ret, hist,
                   loads, lastOp, ops>>

\* The timeout is due: its callback calls the wrapped handler with the
\* arguments it holds (main.js line 213).
SearchTimerFires ==
    /\ page.search.timer = "armed"
    /\ now >= page.search.due
    /\ page' = [page EXCEPT
                  !.search.timer = "none",
                  !.search.calls =
                      Append(@, [at |-> now, value |-> page.search.args])]
    /\ UNCHANGED <<now, store, denied, pc, net, timer, deadline, fb, ret, hist,
                   loads, lastOp, ops>>

\* Time passes at the search box. A timeout that is due fires before the
\* clock moves on.
SearchTick(d) ==
    /\ now + d <= CACHE_DURATION + MaxSearchMs
    /\ page.search.timer = "armed" => now + d <= page.search.due
    /\ now' = now + d
    /\ UNCHANGED <<store, denied, pc, net, timer, deadline, fb, ret, hist,
                   loads, lastOp, ops, page>>

\* A page has bound its listeners (main.js lines 19-20) and has rendered
\* its teams; no input event has been dispatched yet.
DebounceInit ==
    /\ now = CACHE_DURATION
    /\ store = EmptyStore
    /\ denied = FALSE
    /\ pc = [i \in Invocations |-> "idle"]
    /\ net = [i \in Invocations |-> "none"]
    /\ timer = [i \in Invocations |-> "none"]
    /\ deadline = [i \in Invocations |-> 0]
    /\ fb = [i \in Invocations |-> "none"]
    /\ ret = [i \in Invocations |-> [state |-> "none", value |-> <<>>]]
    /\ hist = [i \in Invocations |-> NoHist]
    /\ loads = 0
    /\ lastOp = NoOp
    /\ ops = 0
    /\ page \in { [NoPage EXCEPT !.name = name, !.phase = "rendered",
                                 !.number = 1, !.view = "content"] :
                    name \in Pages }

DebounceNext ==
    \/ \E value \in InputValues : InputEvent(value)
    \/ SearchTimerFires
    \/ \E d \in SearchSteps : SearchTick(d)

DebounceSpec == DebounceInit /\ [][DebounceNext]_vars

(***************************************************************************)
(* Properties.                                                             *)
(***************************************************************************)
\* The store holds a valid entry at time t: the timestamp key is present and
\* less than 24 h old, the payload key is present and parsable.
ValidEntry(st, t) ==
    /\ st.ts # <<>>
    /\ ~ParseInt(st.ts[1]).nan
    /\ t - ParseInt(st.ts[1]).n < CACHE_DURATION
    /\ st.payload # <<>>
    /\ st.payload[1].kind = "json"

\* The remote stage of invocation i failed.
RemoteFailed(i) == hist[i].remoteOutcome \in RemoteFailures \cup {"timeout"}

\* The fallback fetch of invocation i returned a document with teams.
FallbackGaveTeams(i) ==
    /\ hist[i].fallbackOutcome = "ok"
    /\ hist[i].fallbackDoc.hasTeams
    /\ Len(hist[i].fallbackDoc.teams) > 0

\* The store st holds list, stamped with the time t.
Holds(st, list, t) ==
    /\ st.payload # <<>>
    /\ st.payload[1].kind = "json"
    /\ JsonParse(st.payload[1]) = list
    /\ st.ts # <<>>
    /\ ParseInt(st.ts[1]) = Num(t)

\* C1: an invocation made while the store holds a valid cache entry returns
\* the cached list, and makes neither the remote call nor the fallback fetch.
C1_CacheHitShortCircuits ==
    \A i \in Invocations :
        (pc[i] # "idle" /\ ValidEntry(hist[i].storeAtInvoke, hist[i].invokedAt))
        => /\ pc[i] = "done"
           /\ ret[i] = Resolved(JsonParse(hist[i].storeAtInvoke.payload[1]))
           /\ hist[i].remoteCalls = 0
           /\ hist[i].fallbackCalls = 0
           /\ net[i] = "none" /\ fb[i] = "none"

C1_Witness ==
    \E i \in Invocations :
        /\ pc[i] = "done"
        /\ ValidEntry(hist[i].storeAtInvoke, hist[i].invokedAt)
        /\ Len(ret[i].value) > 0

\* C2 as claimed: however the remote stage failed, when the cache read gave
\* nothing and the fallback returned a non-empty teams list, that list is
\* returned and the store holds it with a fresh timestamp at the return.
C2_FallthroughAlwaysCached ==
    \A i \in Invocations :
        (pc[i] = "done" /\ hist[i].readRet = <<>> /\ RemoteFailed(i)
            /\ FallbackGaveTeams(i))
        => /\ ret[i] = Resolved(hist[i].fallbackDoc.teams)
           /\ Holds(hist[i].storeAtReturn, hist[i].fallbackDoc.teams,
                    hist[i].returnedAt)

\* C2 as amended: the list is returned in every case; the store holds it with
\* a fresh timestamp when no storage call of the cache write failed.
C2_FallthroughCachedIfWritable ==
    \A i \in Invocations :
        (pc[i] = "done" /\ hist[i].readRet = <<>> /\ RemoteFailed(i)
            /\ FallbackGaveTeams(i))
        => /\ ret[i] = Resolved(hist[i].fallbackDoc.teams)
           /\ hist[i].wrote = <<hist[i].fallbackDoc.teams>>
           /\ hist[i].writeFail = "none"
                => Holds(hist[i].storeAtReturn, hist[i].fallbackDoc.teams,
                         hist[i].returnedAt)

C2_Witness ==
    \E i \in Invocations :
        /\ pc[i] = "done" /\ hist[i].readRet = <<>>
        /\ hist[i].remoteOutcome = "malformed"
        /\ FallbackGaveTeams(i)
        /\ hist[i].writeFail = "none"
        /\ Holds(store, hist[i].fallbackDoc.teams, hist[i].returnedAt)

\* C3: when the cache read gave nothing, the remote stage failed and the
\* fallback fetch failed, the invocation is fulfilled with the empty list.
C3_TotalFailureGivesEmpty ==
    \A i \in Invocations :
        (pc[i] = "done" /\ hist[i].readRet = <<>> /\ RemoteFailed(i)
            /\ hist[i].fallbackOutcome \in FallbackFailures)
        => ret[i] = Resolved(<<>>)

C3_Witness ==
    \E i \in Invocations :
        /\ pc[i] = "done" /\ hist[i].readRet = <<>>
        /\ hist[i].remoteOutcome = "timeout"
        /\ hist[i].fallbackOutcome = "badjson"
        /\ ret[i].state = "resolved"

\* The non-empty list the remote or the fallback stage of invocation i
\* produced; <<>> when neither did.
StageList(i) ==
    IF hist[i].remoteOutcome = "ok" /\ Len(hist[i].upstream) > 0
    THEN NormalizeTeams(hist[i].upstream, hist[i].remoteEndedAt)
    ELSE IF FallbackGaveTeams(i) THEN hist[i].fallbackDoc.teams
    ELSE <<>>

\* C4: fetchTeamsData is never rejected, whatever fails; and when a stage
\* produced a non-empty list, that list is returned unchanged, also when the
\* cache write failed with a storage error.
C4_NeverRejects ==
    \A i \in Invocations :
        /\ ret[i].state # "rejected"
        /\ pc[i] = "done" => ret[i].state = "resolved"
        /\ (pc[i] = "done" /\ StageList(i) # <<>>)
            => ret[i] = Resolved(StageList(i))

C4_Witness ==
    \E i \in Invocations :
        /\ pc[i] = "done"
        /\ hist[i].wrote # <<>>
        /\ hist[i].writeFail \in {"payload", "timestamp", "denied"}
        /\ ret[i] = Resolved(StageList(i))
        /\ StageList(i) # <<>>

\* C5: every invocation is eventually fulfilled, also when the remote call or
\* the fallback fetch never settles.
C5_EventuallyResolves ==
    \A i \in Invocations : (pc[i] \notin {"idle", "done"}) ~> (pc[i] = "done")

\* The part of C5 the timer guarantees: the remote stage always ends.
C5_RemoteStageEnds ==
    \A i \in Invocations : (pc[i] = "awaitRemote") ~> (pc[i] # "awaitRemote")

\* C6: when the remote call is still pending as the timer fires, the remote
\* stage fails with a timeout FETCH_TIMEOUT ms after it began and the
\* fallback fetch starts at that moment, the remote call still pending.
C6_TimeoutStartsFallback ==
    \A i \in Invocations :
        /\ (timer[i] = "fired" /\ net[i] = "pending")
            => hist[i].remoteOutcome = "timeout"
        /\ (pc[i] = "awaitRemote" /\ net[i] = "pending") => timer[i] = "armed"
        /\ hist[i].remoteOutcome = "timeout"
            => /\ pc[i] \in {"awaitFallback", "done"}
               /\ hist[i].remoteEndedAt = hist[i].remoteStartedAt + FETCH_TIMEOUT
               /\ hist[i].fallbackCalls = 1
               /\ hist[i].fallbackStartedAt
                      = hist[i].remoteStartedAt + FETCH_TIMEOUT

\* The fallback fetch is under way, and over, while the remote call that
\* takes FETCH_TIMEOUT + LateMs ms has not settled.
C6_Witness ==
    \E i \in Invocations :
        /\ hist[i].remoteOutcome = "timeout"
        /\ net[i] = "pending"
        /\ pc[i] = "done"
        /\ now = hist[i].remoteStartedAt + FETCH_TIMEOUT + LateMs

\* C7: a read of a stored entry with timestamp t at time now returns the
\* payload exactly when now - t < 24 h (at exactly 24 h: absent), and
\* isCacheValid and isCacheExpired decide as the read does.
C7_ReadIffYoungerThanADay ==
    (lastOp.op = "getCachedTeams" /\ lastOp.before.ts # <<>>
        /\ lastOp.before.payload # <<>>)
    => LET t == ParseInt(lastOp.before.ts[1])
       IN  /\ lastOp.ret # <<>> <=> lastOp.at - t.n < CACHE_DURATION
           /\ lastOp.ret # <<>>
                => lastOp.ret = <<JsonParse(lastOp.before.payload[1])>>
           /\ IsCacheValid(t, lastOp.at) <=> lastOp.ret # <<>>
           /\ IsCacheExpired(lastOp.before, lastOp.at, denied)
                <=> lastOp.ret = <<>>

\* What the code does: the read returns the payload up to and including
\* 24 h, and isCacheExpired agrees with it.
C7_ReadIffNotOlderThanADay ==
    (lastOp.op = "getCachedTeams" /\ lastOp.before.ts # <<>>
        /\ lastOp.before.payload # <<>>)
    => LET t == ParseInt(lastOp.before.ts[1])
       IN  /\ lastOp.ret # <<>> <=> lastOp.at - t.n <= CACHE_DURATION
           /\ IsCacheExpired(lastOp.before, lastOp.at, denied)
                <=> lastOp.ret = <<>>
           /\ IsCacheValid(t, lastOp.at)
                <=> lastOp.at - t.n < CACHE_DURATION

\* C8 as claimed: right after cacheTeams(A) followed by cacheTeams(B), a
\* read returns exactly B.
C8_SecondWriteAlwaysWins ==
    (lastOp.op = "cacheTeams" /\ lastOp.prevOp = "cacheTeams"
        /\ lastOp.at = now)
    => GetCachedTeams(store, now, denied).ret = <<lastOp.arg>>

\* C8 as amended: it does when no storage call of cacheTeams(B) failed.
C8_SecondWriteWinsIfWritten ==
    (lastOp.op = "cacheTeams" /\ lastOp.prevOp = "cacheTeams"
        /\ lastOp.at = now /\ lastOp.fail = "none")
    => /\ GetCachedTeams(store, now, denied).ret = <<lastOp.arg>>
       /\ store = [payload |-> <<JsonStringify(lastOp.arg)>>,
                   ts |-> <<NumberToString(now)>>]

C8_Witness ==
    /\ lastOp.op = "cacheTeams" /\ lastOp.prevOp = "cacheTeams"
    /\ lastOp.at = now /\ lastOp.fail = "none" /\ lastOp.prevFail = "none"
    /\ lastOp.prevArg = <<MercedesTeam>> /\ lastOp.arg = <<McLarenTeam>>
    /\ GetCachedTeams(store, now, denied).ret = << <<McLarenTeam>> >>

\* C9: with an empty cache and a valid remote answer of n >= 1 teams, the
\* invocation returns the n teams in upstream order, each with championships,
\* wins and podiums 0 and no drivers, and a read within 24 h of the return
\* gives the same teams. Stated for the invocations whose cache write met no
\* storage error.
C9_RemoteTeamsReturnedAndCached ==
    \A i \in Invocations :
        (pc[i] = "done" /\ hist[i].storeAtInvoke = EmptyStore
            /\ hist[i].remoteOutcome = "ok" /\ Len(hist[i].upstream) >= 1
            /\ hist[i].writeFail = "none")
        => /\ ret[i].state = "resolved"
           /\ Len(ret[i].value) = Len(hist[i].upstream)
           /\ \A k \in 1..Len(ret[i].value) :
                /\ ret[i].value[k].name = hist[i].upstream[k].name
                /\ ret[i].value[k].championships = 0
                /\ ret[i].value[k].wins = 0
                /\ ret[i].value[k].podiums = 0
                /\ ret[i].value[k].drivers = <<>>
           /\ \A t \in Instants :
                (t >= hist[i].returnedAt
                    /\ t - hist[i].returnedAt < CACHE_DURATION)
                => GetCachedTeams(hist[i].storeAtReturn, t, denied).ret
                       = <<ret[i].value>>

\* What the code does: the read gives the returned teams as JSON.stringify
\* leaves them, that is without the function-valued powerUnit.
C9_RemoteTeamsCachedAsSerialized ==
    \A i \in Invocations :
        (pc[i] = "done" /\ hist[i].storeAtInvoke = EmptyStore
            /\ hist[i].remoteOutcome = "ok" /\ Len(hist[i].upstream) >= 1
            /\ hist[i].writeFail = "none")
        => /\ ret[i].state = "resolved"
           /\ Len(ret[i].value) = Len(hist[i].upstream)
           /\ \A k \in 1..Len(ret[i].value) :
                /\ ret[i].value[k].name = hist[i].upstream[k].name
                /\ ret[i].value[k].championships = 0
                /\ ret[i].value[k].wins = 0
                /\ ret[i].value[k].podiums = 0
                /\ ret[i].value[k].drivers = <<>>
           /\ \A t \in Instants :
                (t >= hist[i].returnedAt
                    /\ t - hist[i].returnedAt < CACHE_DURATION)
                => GetCachedTeams(hist[i].storeAtReturn, t, denied).ret
                       = <<JsonStringify(ret[i].value).val>>

\* C10: the payload key and the timestamp key are both present or both
\* absent, in every reachable state of the store.
C10_KeysPresentTogether == (store.payload = <<>>) <=> (store.ts = <<>>)

\* C11: an invocation made while the payload key is present and the timestamp
\* key is absent reads the cache as absent and goes on to the remote stage;
\* what it returns is what the remote or the fallback stage produced (the
\* empty list when neither did), never the stored payload.
C11_PayloadWithoutTimestampIsAbsent ==
    \A i \in Invocations :
        (pc[i] # "idle" /\ hist[i].storeAtInvoke.payload # <<>>
            /\ hist[i].storeAtInvoke.ts = <<>>)
        => /\ hist[i].readRet = <<>>
           /\ hist[i].remoteCalls = 1
           /\ hist[i].remoteStartedAt = hist[i].invokedAt
           /\ pc[i] = "awaitRemote" => ret[i] = Pending
           /\ pc[i] = "done" => ret[i] = Resolved(StageList(i))

\* The stored list is not returned although no stage produced anything.
C11_Witness ==
    \E i \in Invocations :
        /\ pc[i] = "done"
        /\ hist[i].storeAtInvoke.payload = <<JsonStringify(<<McLarenTeam>>)>>
        /\ hist[i].storeAtInvoke.ts = <<>>
        /\ hist[i].remoteCalls = 1
        /\ StageList(i) = <<>>
        /\ ret[i] = Resolved(<<>>)

\* C12: whenever a read of the cache returns absent, whatever the reason
\* (timestamp key missing, entry expired, payload key missing), both keys are
\* absent from the store when the read returns.
C12_AbsentReadLeavesNoKeys ==
    (lastOp.op = "getCachedTeams" /\ lastOp.ret = <<>>) => store = EmptyStore

\* What the code does: an absent read removes both keys when the entry is
\* expired or the payload does not parse, and leaves the store as it was when
\* the timestamp or the payload is missing or empty.
C12_AbsentReadPurgesExpiredOrCorrupt ==
    (lastOp.op = "getCachedTeams" /\ lastOp.ret = <<>> /\ ~denied)
    => LET st == lastOp.before
           noTimestamp == st.ts = <<>> \/ st.ts[1] = <<>>
           noPayload == st.payload = <<>> \/ st.payload[1].kind = "empty"
       IN  IF noTimestamp THEN store = st
           ELSE IF Expired(st.ts[1], lastOp.at) THEN store = EmptyStore
           ELSE IF noPayload THEN store = st
           ELSE store = EmptyStore /\ st.payload[1].kind = "garbage"

\* The timestamp key of st is present and less than 24 h old at time t.
ValidTimestamp(st, t) ==
    /\ st.ts # <<>>
    /\ ~ParseInt(st.ts[1]).nan
    /\ t - ParseInt(st.ts[1]).n < CACHE_DURATION

\* The state an invocation made at time t on the store st is in while it
\* awaits the remote call, when its cache read found nothing and left the
\* store empty: the state an invocation on an empty cache is in.
AsOnEmptyCache(i, st, t) ==
    /\ store = EmptyStore
    /\ ret[i] = Pending
    /\ net[i] = "pending" /\ timer[i] = "armed" /\ fb[i] = "none"
    /\ deadline[i] = TimerDue(t)
    /\ hist[i] = [NoHist EXCEPT !.invokedAt = t, !.storeAtInvoke = st,
                                !.remoteCalls = 1, !.remoteStartedAt = t,
                                !.race = Pending]

\* C13: an invocation made while the timestamp is valid and the stored
\* payload cannot be deserialized reads the cache as absent, removes both
\* keys and goes on to the remote stage exactly as on an empty cache.
C13_CorruptPayloadPurged ==
    \A i \in Invocations :
        (pc[i] # "idle"
            /\ ValidTimestamp(hist[i].storeAtInvoke, hist[i].invokedAt)
            /\ hist[i].storeAtInvoke.payload # <<>>
            /\ JsonParseThrows(hist[i].storeAtInvoke.payload[1]))
        => /\ hist[i].readRet = <<>>
           /\ hist[i].remoteCalls = 1
           /\ pc[i] = "awaitRemote"
                => AsOnEmptyCache(i, hist[i].storeAtInvoke, hist[i].invokedAt)
           /\ pc[i] = "awaitFallback" => store = EmptyStore
           /\ pc[i] = "done" => ret[i] = Resolved(StageList(i))

\* What the code does: the same, for a payload that is not the empty string.
C13_NonEmptyCorruptPayloadPurged ==
    \A i \in Invocations :
        (pc[i] # "idle"
            /\ ValidTimestamp(hist[i].storeAtInvoke, hist[i].invokedAt)
            /\ hist[i].storeAtInvoke.payload = <<GarbageText>>)
        => /\ hist[i].readRet = <<>>
           /\ hist[i].remoteCalls = 1
           /\ pc[i] = "awaitRemote"
                => AsOnEmptyCache(i, hist[i].storeAtInvoke, hist[i].invokedAt)
           /\ pc[i] = "awaitFallback" => store = EmptyStore
           /\ pc[i] = "done" => ret[i] = Resolved(StageList(i))

\* C14: getTeamAccentColor is case-insensitive and ignores leading and
\* trailing whitespace: every variant in letter case and surrounding
\* whitespace of a name of the table gives the table's color, every name not
\* in the table gives #FF1801, and the two definitions give the same color
\* for every name of the first table.
C14_ColorLookup ==
    lastOp.op = "getTeamAccentColor"
    => LET input == lastOp.arg
           r == lastOp.ret
       IN  /\ input.row # 0
                => /\ r.first = AccentColors[input.row][2]
                   /\ r.second = r.first
           /\ input.row = 0 => r.first = "#FF1801"
           /\ input.utilsRow # 0
                => r.second = AccentColorsUtils[input.utilsRow][2]
           /\ input.utilsRow = 0 => r.second = "#FF1801"

\* What the code does: the same, but for the variants of the names an object
\* literal inherits, for which it returns the inherited value.
C14_ColorLookupOfOwnKeys ==
    lastOp.op = "getTeamAccentColor"
    => LET input == lastOp.arg
           r == lastOp.ret
       IN  /\ input.row # 0
                => /\ r.first = AccentColors[input.row][2]
                   /\ r.second = r.first
           /\ (input.row = 0 /\ ~input.inherited) => r.first = "#FF1801"
           /\ input.utilsRow # 0
                => r.second = AccentColorsUtils[input.utilsRow][2]
           /\ (input.utilsRow = 0 /\ ~input.inherited) => r.second = "#FF1801"
           /\ input.inherited
                => /\ r.first \in {"function Object", "Object.prototype"}
                   /\ r.second = r.first

\* The remote stage of invocation i is over and produced a non-empty list.
RemoteGaveTeams(i) ==
    hist[i].remoteOutcome = "ok" /\ Len(hist[i].upstream) > 0

\* C15: in every invocation the remote call is made exactly when the cache
\* read did not produce a non-empty list (a stored payload that parses to
\* the empty list does not end the invocation), and the fallback fetch is
\* made exactly when the remote stage was attempted, is over and did not
\* produce a non-empty list.
C15_StageOnlyAfterEmptyStage ==
    \A i \in Invocations :
        pc[i] # "idle"
        => /\ hist[i].remoteCalls \in {0, 1}
           /\ hist[i].fallbackCalls \in {0, 1}
           /\ hist[i].remoteCalls = 1
                <=> (hist[i].readRet = <<>> \/ Len(hist[i].readRet[1]) = 0)
           /\ hist[i].fallbackCalls = 1
                <=> /\ hist[i].remoteCalls = 1
                    /\ hist[i].remoteOutcome # "none"
                    /\ ~RemoteGaveTeams(i)

\* What the code does: the remote call is made exactly when the cache read
\* returned absent; a stored empty list is returned as a hit.
C15_StageOnlyAfterAbsentOrEmptyStage ==
    \A i \in Invocations :
        pc[i] # "idle"
        => /\ hist[i].remoteCalls \in {0, 1}
           /\ hist[i].fallbackCalls \in {0, 1}
           /\ hist[i].remoteCalls = 1 <=> hist[i].readRet = <<>>
           /\ hist[i].readRet # <<>>
                => pc[i] = "done" /\ ret[i] = Resolved(hist[i].readRet[1])
           /\ hist[i].fallbackCalls = 1
                <=> /\ hist[i].remoteCalls = 1
                    /\ hist[i].remoteOutcome # "none"
                    /\ ~RemoteGaveTeams(i)

\* The store the cache read of invocation i left.
StoreAfterRead(i) ==
    GetCachedTeams(hist[i].storeAtInvoke, hist[i].invokedAt, denied).store

\* C16: when the remote call answers with a valid envelope of zero teams,
\* the empty list is neither returned nor cached: the fallback fetch starts
\* at once, as after a remote failure, and the invocation ends with what the
\* fallback stage gives.
C16_RemoteZeroTeamsFallsThrough ==
    \A i \in Invocations :
        (hist[i].remoteOutcome = "ok" /\ Len(hist[i].upstream) = 0)
        => /\ pc[i] \in {"awaitFallback", "done"}
           /\ hist[i].fallbackCalls = 1
           /\ hist[i].fallbackStartedAt = hist[i].remoteEndedAt
           /\ pc[i] = "awaitFallback"
                => /\ ret[i] = Pending
                   /\ hist[i].wrote = <<>>
                   /\ store = StoreAfterRead(i)
           /\ pc[i] = "done"
                => /\ hist[i].fallbackOutcome # "none"
                   /\ ret[i] = Resolved(IF FallbackGaveTeams(i)
                                        THEN hist[i].fallbackDoc.teams
                                        ELSE <<>>)
                   /\ hist[i].wrote = IF FallbackGaveTeams(i)
                                      THEN <<hist[i].fallbackDoc.teams>>
                                      ELSE <<>>

C16_Witness ==
    \E i \in Invocations :
        /\ hist[i].remoteOutcome = "ok" /\ Len(hist[i].upstream) = 0
        /\ pc[i] = "done"
        /\ FallbackGaveTeams(i)
        /\ ret[i] = Resolved(<<MercedesTeam, McLarenTeam>>)

\* C17: when the fallback document is retrieved but its teams field is
\* missing or empty, the invocation returns [] and writes nothing to the
\* cache: the store is as the cache read left it.
C17_FallbackWithoutTeamsGivesEmpty ==
    \A i \in Invocations :
        (pc[i] = "done" /\ hist[i].fallbackOutcome = "ok"
            /\ (~hist[i].fallbackDoc.hasTeams
                    \/ Len(hist[i].fallbackDoc.teams) = 0))
        => /\ hist[i].readRet = <<>>
           /\ ~RemoteGaveTeams(i)
           /\ ret[i] = Resolved(<<>>)
           /\ hist[i].wrote = <<>>
           /\ hist[i].storeAtReturn = StoreAfterRead(i)

C17_Witness ==
    \E i \in Invocations :
        /\ pc[i] = "done" /\ hist[i].fallbackOutcome = "ok"
        /\ hist[i].fallbackDoc = [hasTeams |-> TRUE, teams |-> <<>>]
        /\ hist[i].remoteOutcome = "http"
        /\ ret[i] = Resolved(<<>>)
        /\ store = EmptyStore

\* C18: when the remote fetch answers with a non-success HTTP status or with
\* an envelope that lacks MRData.TeamTable.Teams, the promise of
\* fetchFromErgastAPI is rejected, also when the answer comes after the
\* timeout; it is fulfilled, and then with the mapped teams, only by a valid
\* envelope.
C18_RemoteFetchRejects ==
    \A i \in Invocations :
        /\ hist[i].answered \in {"http", "malformed"}
            => hist[i].race = Rejected
        /\ hist[i].race.state = "resolved"
            => /\ hist[i].answered = "ok"
               /\ hist[i].race.value
                    = NormalizeTeams(hist[i].upstream, hist[i].remoteEndedAt)

C18_Witness ==
    \E i \in Invocations :
        /\ hist[i].answered = "malformed"
        /\ hist[i].remoteOutcome = "malformed"
        /\ hist[i].race = Rejected
        /\ pc[i] = "awaitFallback"

\* C19: fetchDriverData is never rejected. When the race times out (which it
\* does FETCH_TIMEOUT ms after the call), the fetch fails, the status is not
\* a success, the body does not parse or the envelope lacks
\* MRData.DriverTable.Drivers, it is fulfilled with the empty list; on
\* success it is fulfilled with one driver per row, in order, each with
\* points, races and wins 0.
C19_DriverFetchNeverRejects ==
    \A i \in Invocations :
        /\ ret[i].state # "rejected"
        /\ pc[i] = "done" => ret[i].state = "resolved"
        /\ hist[i].remoteOutcome
                \in {"timeout", "neterr", "http", "badjson", "malformed"}
            => pc[i] = "done" /\ ret[i] = Resolved(<<>>)
        /\ hist[i].remoteOutcome = "timeout"
            => hist[i].returnedAt = hist[i].remoteStartedAt + FETCH_TIMEOUT
        /\ (pc[i] = "awaitDrivers" /\ net[i] = "pending") => timer[i] = "armed"
        /\ hist[i].remoteOutcome = "ok"
            => /\ pc[i] = "done"
               /\ ret[i].state = "resolved"
               /\ Len(ret[i].value) = Len(hist[i].upstream)
               /\ \A k \in 1..Len(ret[i].value) :
                    /\ ret[i].value[k].id = hist[i].upstream[k].driverId
                    /\ ret[i].value[k].points = 0
                    /\ ret[i].value[k].races = 0
                    /\ ret[i].value[k].wins = 0

\* A failed call followed by a successful one.
C19_Witness ==
    \E i \in Invocations :
        /\ loads = 2
        /\ pc[i] = "done"
        /\ hist[i].remoteOutcome = "ok"
        /\ Len(ret[i].value) = 2
        /\ ret[i].value[2].number = "0"

C19_WitnessTimeout ==
    \E i \in Invocations :
        /\ pc[i] = "done"
        /\ hist[i].remoteOutcome = "timeout"
        /\ ret[i] = Resolved(<<>>)
        /\ net[i] = "pending"

PairwiseDistinct(l) == \A j, k \in 1..Len(l) : j # k => l[j] # l[k]

\* C21: in every list produced by remote normalization from a Teams array
\* whose display names are pairwise distinct, the team ids are pairwise
\* distinct.
C21_IdsUnique ==
    lastOp.op = "normalizeTeams"
    => LET names == [k \in 1..Len(lastOp.arg) |-> lastOp.arg[k].name]
           ids == [k \in 1..Len(lastOp.ret) |-> lastOp.ret[k].id]
       IN  PairwiseDistinct(names) => PairwiseDistinct(ids)

\* What the code does: one record per team, in order, with the slug of the
\* team's name as id; two teams have the same id exactly when their names
\* are the same after lower-casing and after replacing every whitespace run
\* by a hyphen.
C21_IdsAreSlugs ==
    lastOp.op = "normalizeTeams"
    => /\ Len(lastOp.ret) = Len(lastOp.arg)
       /\ \A k \in 1..Len(lastOp.ret) :
             /\ lastOp.ret[k].name = lastOp.arg[k].name
             /\ lastOp.ret[k].id
                  = ReplaceWhitespaceRuns(ToLowerCase(lastOp.arg[k].name))
             /\ \A c \in 1..Len(lastOp.ret[k].id) :
                   /\ lastOp.ret[k].id[c] \notin WhiteSpace
                   /\ LowerChar(lastOp.ret[k].id[c]) = lastOp.ret[k].id[c]

\* C22: of the race between the remote call and the timer only the first
\* outcome is observed. When the remote call settles after the timer fired,
\* that step changes neither what fetchTeamsData returns, nor the store, nor
\* how far the invocation is; an invocation whose remote stage timed out
\* returns and caches the fallback's list or nothing. When the timer fires
\* after the remote call settled, that step changes neither the returned
\* list, nor the store, nor the invocation.
C22_OnlyFirstOutcomeObserved ==
    [][ \A i \in Invocations :
          /\ (timer[i] = "fired" /\ net[i] = "pending" /\ net'[i] = "settled")
               => /\ UNCHANGED <<store, ret, pc, fb>>
                  /\ hist'[i] = [hist[i] EXCEPT !.answered = hist'[i].answered]
          /\ (net[i] = "settled" /\ timer[i] = "armed" /\ timer'[i] = "fired")
               => UNCHANGED <<store, ret, pc, fb, hist>>
          /\ hist'[i].remoteOutcome = "timeout"
               => /\ ret'[i].state = "resolved"
                       => ret'[i].value \in {NoTeams, hist'[i].fallbackDoc.teams}
                  /\ hist'[i].wrote \in {<<>>, <<hist'[i].fallbackDoc.teams>>}
                  /\ pc'[i] # "done" => store' = StoreAfterRead(i)
      ]_vars

\* The timer fired first, the fallback's list was returned, and the remote
\* call answered with a valid envelope afterwards.
C22_Witness ==
    \E i \in Invocations :
        /\ hist[i].remoteOutcome = "timeout"
        /\ hist[i].answered = "ok"
        /\ net[i] = "settled"
        /\ pc[i] = "done"
        /\ ret[i] = Resolved(hist[i].fallbackDoc.teams)
        /\ Len(ret[i].value) > 0

\* The remote call settled first with teams, and the timer fired afterwards.
C22_WitnessTimerLate ==
    \E i \in Invocations :
        /\ hist[i].remoteOutcome = "ok"
        /\ timer[i] = "fired"
        /\ pc[i] = "done"
        /\ ret[i] = Resolved(StageList(i))
        /\ Len(ret[i].value) > 0

\* Invocation i ended after both the read of the cache and a network stage.
MissedAndDone(i) ==
    pc[i] = "done" /\ hist[i].readRet = <<>> /\ hist[i].remoteCalls = 1

\* The invocations i and j overlap in time.
Interleaved(i, j) ==
    /\ i # j
    /\ hist[i].invokedAt <= hist[j].returnedAt
    /\ hist[j].invokedAt <= hist[i].returnedAt

\* Invocation i called cacheTeams and its first setItem (the payload's) was
\* carried out.
WrotePayload(i) ==
    hist[i].wrote # <<>> /\ hist[i].writeFail \in {"none", "timestamp"}

\* The entry cacheTeams of invocation i writes: its list, stamped with the
\* time of the call.
EntryOf(i) ==
    [ payload |-> <<JsonStringify(hist[i].wrote[1])>>,
      ts |-> <<NumberToString(hist[i].returnedAt)>> ]

\* The invocations that can have been the last to write.
LastWriters ==
    { i \in Invocations :
        /\ WrotePayload(i)
        /\ \A j \in Invocations :
              WrotePayload(j) => hist[j].returnedAt <= hist[i].returnedAt }

\* C23: when two invocations interleave on an empty cache, both miss, and
\* after both ended the store holds the complete entry (payload and
\* timestamp) of the invocation that wrote last: never the payload of one
\* with the timestamp of the other.
C23_LastWriteWinsWhole ==
    \A i, j \in Invocations :
        (Interleaved(i, j) /\ MissedAndDone(i) /\ MissedAndDone(j)
            /\ LastWriters # {})
        => \E w \in LastWriters : store = EntryOf(w)

\* What the code does: the same when no setItem of a timestamp threw; and in
\* every case the payload in the store is the whole list of a last writer,
\* never a mix of the two lists.
C23_LastWriteWinsIfStamped ==
    \A i, j \in Invocations :
        (Interleaved(i, j) /\ MissedAndDone(i) /\ MissedAndDone(j)
            /\ LastWriters # {})
        => /\ \E w \in LastWriters : store.payload = EntryOf(w).payload
           /\ (\A k \in Invocations : hist[k].writeFail # "timestamp")
                => \E w \in LastWriters : store = EntryOf(w)

\* Both invocations missed the cache, both made the remote call, both wrote,
\* different lists at different times.
C23_BothFetchedAndWrote ==
    /\ MissedAndDone(1) /\ MissedAndDone(2) /\ Interleaved(1, 2)
    /\ hist[1].writeFail = "none" /\ hist[2].writeFail = "none"
    /\ hist[1].wrote # <<>> /\ hist[2].wrote # <<>>
    /\ hist[1].wrote # hist[2].wrote
    /\ hist[1].returnedAt < hist[2].returnedAt
    /\ store = EntryOf(2)

\* Invocation i began on a store whose timestamp key holds a non-empty
\* string that does not parse to a number.
BeganOnNonNumericTimestamp(i) ==
    /\ hist[i].invokedAt # 0
    /\ hist[i].storeAtInvoke.ts # <<>>
    /\ hist[i].storeAtInvoke.ts[1] # <<>>
    /\ ParseInt(hist[i].storeAtInvoke.ts[1]).nan

\* C24: a cache entry whose timestamp does not parse to a number is invalid:
\* the read of an invocation that finds it returns absent and removes both
\* keys, the remote call is made, and the payload is not what is returned.
C24_NonNumericTimestampInvalid ==
    \A i \in Invocations :
        BeganOnNonNumericTimestamp(i)
        => /\ hist[i].readRet = <<>>
           /\ hist[i].remoteCalls = 1
           /\ pc[i] = "awaitRemote" => store = EmptyStore
           /\ pc[i] = "done" => ret[i] = Resolved(StageList(i))

\* What the code does: NaN is not greater than CACHE_DURATION, so the entry
\* is never expired. A parsable payload is returned as a cache hit, whatever
\* the time, and the store is left as it is; only an unparsable payload
\* makes the read purge the store.
C24_NonNumericTimestampNeverExpires ==
    \A i \in Invocations :
        BeganOnNonNumericTimestamp(i)
        => LET st == hist[i].storeAtInvoke
           IN  IF st.payload # <<>> /\ st.payload[1].kind = "json"
               THEN /\ hist[i].readRet = <<JsonParse(st.payload[1])>>
                    /\ pc[i] = "done"
                    /\ ret[i] = Resolved(JsonParse(st.payload[1]))
                    /\ hist[i].remoteCalls = 0
                    /\ store = st
               ELSE /\ hist[i].readRet = <<>>
                    /\ hist[i].remoteCalls = 1
                    /\ pc[i] = "awaitRemote" => store = EmptyStore

\* The entry with a non-numeric timestamp is served more than a day after
\* the page was first opened.
C24_ServedAfterADay ==
    \E i \in Invocations :
        /\ BeganOnNonNumericTimestamp(i)
        /\ hist[i].invokedAt >= 2 * CACHE_DURATION
        /\ pc[i] = "done" /\ hist[i].remoteCalls = 0
        /\ Len(ret[i].value) > 0

\* The drivers nested under a team: none for a team without the key.
DriversOf(team) == IF "drivers" \in DOMAIN team THEN team.drivers ELSE <<>>

\* The number of drivers nested under the first n teams.
RECURSIVE DriversBefore(_, _)
DriversBefore(teams, n) ==
    IF n = 0 THEN 0
    ELSE DriversBefore(teams, n - 1) + Len(DriversOf(teams[n]))

\* The keys copied from the team onto a flattened driver.
TeamKeys == {"teamId", "teamName", "teamColor", "teamLogo"}

Count(l, x) == Cardinality({k \in 1..Len(l) : l[k] = x})

\* C27: extractAndSortDrivers returns a permutation of all drivers of all
\* teams, ordered by points descending and, among drivers with equal
\* points, by wins descending.
C27_SortedStandings ==
    lastOp.op = "extractAndSortDrivers"
    => LET all == ExtractAllDrivers(lastOp.arg)
           sorted == lastOp.ret
       IN  /\ Len(sorted) = Len(all)
           /\ \A k \in 1..Len(all) : Count(sorted, all[k]) = Count(all, all[k])
           /\ \A k \in 1..(Len(sorted) - 1) :
                 \/ sorted[k].points > sorted[k + 1].points
                 \/ /\ sorted[k].points = sorted[k + 1].points
                    /\ sorted[k].wins >= sorted[k + 1].wins

\* The standings differ from the roster order: a driver moved ahead of
\* another on points, and one ahead of another with the same points on wins.
C27_Witness ==
    /\ lastOp.op = "extractAndSortDrivers"
    /\ LET all == ExtractAllDrivers(lastOp.arg)
           sorted == lastOp.ret
       IN  /\ Len(sorted) >= 4
           /\ sorted # all
           /\ \E k \in 1..(Len(sorted) - 1) :
                 /\ sorted[k].points = sorted[k + 1].points
                 /\ sorted[k].wins > sorted[k + 1].wins
           /\ \E k \in 1..(Len(sorted) - 1) :
                 sorted[k].points > sorted[k + 1].points
           /\ \E j, k \in 1..Len(all) :
                 j < k /\ all[j].points = all[k].points
                       /\ all[j].wins < all[k].wins

\* C25: when a page's load routine has ended, the page shows the error
\* message if and only if fetchTeamsData returned an empty list; with a
\* non-empty list it shows what its render function makes of the list (the
\* teams, the drivers or standings, or the note that the teams have no
\* drivers) and no error message.
C25_ErrorBannerIffEmpty ==
    page.phase = "rendered"
    => /\ ret[1].state = "resolved"
       /\ page.view = "error" <=> ret[1].value = <<>>
       /\ ret[1].value # <<>>
            => /\ page.view \in {"content", "noDrivers"}
               /\ page.name = "main" => page.view = "content"
               /\ page.view = "noDrivers"
                    <=> /\ page.name \in {"drivers", "standings"}
                        /\ \A k \in 1..Len(ret[1].value) :
                              DriversOf(ret[1].value[k]) = <<>>

\* The drivers page shows the error message after the static file answered
\* with no teams.
C25_Witness ==
    /\ page.phase = "rendered" /\ page.name = "drivers"
    /\ page.view = "error"
    /\ ret[1] = Resolved(<<>>)
    /\ hist[1].fallbackOutcome = "ok"

\* The standings page shows rows for a list served from the cache.
C25_WitnessContent ==
    /\ page.phase = "rendered" /\ page.name = "standings"
    /\ page.view = "content"
    /\ hist[1].readRet # <<>>
    /\ Len(ret[1].value) > 0

\* The drivers page shows 'No drivers found.' for the teams of the remote
\* API, which have no drivers.
C25_WitnessNoDrivers ==
    /\ page.phase = "rendered" /\ page.name = "drivers"
    /\ page.view = "noDrivers"
    /\ hist[1].remoteOutcome = "ok"
    /\ Len(ret[1].value) > 0

\* C28: an invocation calls cacheTeams if and only if its remote or its
\* fallback stage produced a non-empty list, and then with the list it
\* returns, once, as it returns; on a cache hit it leaves the store as it
\* found it (the timestamp is not renewed), on total failure as the read
\* left it; the payload the pipeline stores is never the empty list.
C28_WritesOnlyFreshNonEmptyLists ==
    /\ store.payload # <<JsonStringify(<<>>)>>
    /\ \A i \in Invocations :
          /\ hist[i].wrote # <<>>
               => /\ pc[i] = "done"
                  /\ hist[i].wrote[1] # <<>>
                  /\ ret[i] = Resolved(hist[i].wrote[1])
                  /\ hist[i].writeFail = "none"
                       => store = [payload |-> <<JsonStringify(ret[i].value)>>,
                                   ts |-> <<NumberToString(hist[i].returnedAt)>>]
                  /\ hist[i].writeFail \in {"payload", "denied"}
                       => store = StoreAfterRead(i)
          /\ pc[i] = "done"
               => /\ hist[i].wrote # <<>> <=> StageList(i) # <<>>
                  /\ hist[i].wrote # <<>> => hist[i].wrote[1] = StageList(i)
                  /\ hist[i].readRet # <<>>
                       => /\ hist[i].wrote = <<>>
                          /\ store = hist[i].storeAtInvoke
                          /\ hist[i].remoteCalls = 0
                  /\ (hist[i].readRet = <<>> /\ StageList(i) = <<>>)
                       => /\ hist[i].wrote = <<>>
                          /\ store = StoreAfterRead(i)
          /\ pc[i] \in {"awaitRemote", "awaitFallback"}
               => hist[i].wrote = <<>> /\ store = StoreAfterRead(i)

\* A cache hit some time after the write: the timestamp in the store is
\* still that of the write.
C28_Witness ==
    \E i \in Invocations :
        /\ pc[i] = "done"
        /\ hist[i].readRet # <<>>
        /\ hist[i].wrote = <<>>
        /\ store.ts # <<>>
        /\ ParseInt(store.ts[1]).n < hist[i].invokedAt
        /\ store = hist[i].storeAtInvoke

\* The fallback's list was written after the remote stage failed.
C28_WitnessWrite ==
    \E i \in Invocations :
        /\ pc[i] = "done"
        /\ RemoteFailed(i)
        /\ hist[i].wrote = <<hist[i].fallbackDoc.teams>>
        /\ hist[i].writeFail = "none"
        /\ store.payload = <<JsonStringify(ret[i].value)>>

\* Total failure after the read purged an expired entry: nothing written.
C28_WitnessTotalFailure ==
    \E i \in Invocations :
        /\ pc[i] = "done"
        /\ hist[i].storeAtInvoke # EmptyStore
        /\ hist[i].readRet = <<>>
        /\ ret[i] = Resolved(<<>>)
        /\ hist[i].wrote = <<>>
        /\ store = EmptyStore

\* The list a is b with some elements left out.
RECURSIVE IsSubsequence(_, _)
IsSubsequence(a, b) ==
    IF a = <<>> THEN TRUE
    ELSE IF b = <<>> THEN FALSE
    ELSE IF Head(a) = Head(b) THEN IsSubsequence(Tail(a), Tail(b))
    ELSE IsSubsequence(a, Tail(b))

\* The driver matches the query as filterStandings tests it.
Matches(driver, query) ==
    \/ Includes(ToLowerCase(driver.name), ToLowerCase(query))
    \/ Includes(ToLowerCase(driver.teamName), ToLowerCase(query))
    \/ Includes(NumberToString(driver.number), query)

\* C29: the position shown for a row of the standings table is its 1-based
\* index among the rows displayed: for every search query the rows are the
\* matching drivers in the order of the full sorted standings (all of them
\* for an empty query), numbered 1..k.
C29_PositionsAreDisplayIndexes ==
    lastOp.op = "handleSearch"
    => LET all == ExtractAndSortDrivers(lastOp.arg.teams)
           query == Trim(lastOp.arg.value)
           rows == lastOp.ret
           shown == [k \in 1..Len(rows) |-> rows[k].driver]
       IN  /\ \A k \in 1..Len(rows) : rows[k].position = k
           /\ IsSubsequence(shown, all)
           /\ query = <<>> => shown = all
           /\ query # <<>>
                => /\ \A k \in 1..Len(shown) : Matches(shown[k], query)
                   /\ \A k \in 1..Len(all) :
                         Count(shown, all[k])
                           = IF Matches(all[k], query) THEN Count(all, all[k])
                             ELSE 0

\* Under a filter the driver shown at position 1 is not the leader of the
\* unfiltered standings, and the driver shown at position 2 is further down
\* than second there.
C29_Witness ==
    /\ lastOp.op = "handleSearch"
    /\ LET all == ExtractAndSortDrivers(lastOp.arg.teams)
           rows == lastOp.ret
       IN  /\ Len(rows) >= 2
           /\ Len(rows) < Len(all)
           /\ rows[1].position = 1
           /\ Count(all, rows[1].driver) = 1
           /\ all[1] # rows[1].driver
           /\ all[1] # rows[2].driver /\ all[2] # rows[2].driver

\* Input event k of the search box is the last of its burst: no event has
\* followed it, or the next one came more than the delay later.
LastOfBurst(k) ==
    LET events == page.search.events
    IN  IF k = Len(events)
        THEN page.search.timer = "none" \/ now > events[k].at + SEARCH_DELAY
        ELSE events[k + 1].at > events[k].at + SEARCH_DELAY

\* The calls of the wrapped handler made at time t.
CallsAt(t) ==
    { c \in 1..Len(page.search.calls) : page.search.calls[c].at = t }

\* C30: a burst of input events in which consecutive events are less than
\* 300 ms apart causes exactly one call of the wrapped handler, made 300 ms
\* after the last event of the burst and with the arguments of that event;
\* no call is made while events keep arriving within 300 ms of each other.
\* Every call is made 300 ms after the event whose arguments it carries, and
\* no event came between the two; no call is made between two events less
\* than 300 ms apart; the last event of a burst is followed by one call.
C30_OneCallPerBurst ==
    LET events == page.search.events
        calls == page.search.calls
    IN  /\ \A c \in 1..Len(calls) :
              \E k \in 1..Len(events) :
                 /\ calls[c].at = events[k].at + SEARCH_DELAY
                 /\ calls[c].value = events[k].value
                 /\ \A j \in 1..Len(events) :
                       j > k => events[j].at >= calls[c].at
        /\ \A k \in 1..(Len(events) - 1) :
              events[k + 1].at - events[k].at < SEARCH_DELAY
                => \A c \in 1..Len(calls) :
                      ~(/\ calls[c].at > events[k].at
                        /\ calls[c].at <= events[k + 1].at)
        /\ \A k \in 1..Len(events) :
              /\ Cardinality(CallsAt(events[k].at + SEARCH_DELAY)) <= 1
              /\ LastOfBurst(k)
                   => \E c \in CallsAt(events[k].at + SEARCH_DELAY) :
                         calls[c].value = events[k].value

\* Three events, each less than 300 ms after the one before, have caused
\* one call: 300 ms after the third, with its value and not the first's.
C30_Witness ==
    LET events == page.search.events
        calls == page.search.calls
    IN  /\ Len(events) = 3
        /\ events[2].at > events[1].at
        /\ events[2].at - events[1].at < SEARCH_DELAY
        /\ events[3].at > events[2].at
        /\ events[3].at - events[2].at < SEARCH_DELAY
        /\ events[3].value # events[1].value
        /\ Len(calls) = 1
        /\ calls[1].at = events[3].at + SEARCH_DELAY
        /\ calls[1].value = events[3].value
        /\ now > calls[1].at

\* Two bursts have caused two calls.
C30_WitnessTwoBursts ==
    LET events == page.search.events
        calls == page.search.calls
    IN  /\ Len(events) = 3
        /\ events[2].at - events[1].at < SEARCH_DELAY
        /\ events[3].at - events[2].at > SEARCH_DELAY
        /\ Len(calls) = 2
        /\ calls[1].at = events[2].at + SEARCH_DELAY
        /\ calls[2].at = events[3].at + SEARCH_DELAY

\* An event dispatched exactly 300 ms after the one before, and handled
\* before the timeout's callback, has cancelled the call of the earlier one.
C30_WitnessExactDelayCancels ==
    LET events == page.search.events
        calls == page.search.calls
    IN  /\ Len(events) = 2
        /\ events[2].at = events[1].at + SEARCH_DELAY
        /\ Len(calls) = 1
        /\ calls[1].at = events[2].at + SEARCH_DELAY

\* An event dispatched exactly 300 ms after the one before, and handled
\* after the timeout's callback, has not.
C30_WitnessExactDelayCalls ==
    LET events == page.search.events
        calls == page.search.calls
    IN  /\ Len(events) = 2
        /\ events[2].at = events[1].at + SEARCH_DELAY
        /\ Len(calls) = 2
        /\ calls[1].at = events[1].at + SEARCH_DELAY

====
